---- MODULE Spec2Model ----
(***************************************************************************)
(* A model of the Apex search engine core: the tokenizer and stop-word     *)
(* filter, the inverted index, the prefix trie, the min-heap top-K         *)
(* selection of autocomplete, the Levenshtein fuzzy matcher, and the       *)
(* search service with its Redis cache and search history.                 *)
(*                                                                         *)
(* Strings are sequences of one-character strings, so that tokenization,   *)
(* prefix walks and edit distance work on characters as the code does.     *)
(* A JavaScript Map is a sequence of [key, val] records in insertion       *)
(* order wherever the code iterates it; a Map or Set that is only looked   *)
(* up is a function or a set.                                              *)
(***************************************************************************)
EXTENDS Integers, Sequences, FiniteSets, TLC

VARIABLES
    index,      \* InvertedIndex.index: term -> [docIds, tf, df]
    documents,  \* InvertedIndex.documents: id -> Document
    totalDocs,  \* InvertedIndex.totalDocs
    ret,        \* the last call on the index and what it returned
    root,       \* Trie.root: the TrieNode tree
    inserted,   \* history: the words passed to Trie.insert since root was created
    tret,       \* the last call on the trie and what it returned
    levA,       \* levenshteinDistance: str1
    levB,       \* levenshteinDistance: str2
    levPc,      \* levenshteinDistance: "call" before the body ran, "return" after
    levResult,  \* levenshteinDistance: the value returned
    scored,     \* autocomplete: the scored candidates, an array of {term, score}
    topKLimit,  \* autocomplete: limit, the K of the top-K selection
    topKHeap,   \* autocomplete: topKHeap.heap, the backing array of the MinHeap
    cursor,     \* autocomplete: how many items of scored the for loop has taken
    topKItems,  \* autocomplete: topKItems
    topKOutput, \* autocomplete: the array of terms returned
    pc,         \* autocomplete: where the top-K code is
    text,       \* tokenizer / extractPhrases: the argument
    tokPc,      \* tokenizer / extractPhrases: "call" before the body ran, "return" after
    tokRet,     \* tokenizer / extractPhrases: which function ran and the array returned
    client,     \* redis.utils: _client, null or the connected client
    cache,      \* the Redis strings: key -> [value, EX]
    history,    \* the Redis sorted set searches:history: member -> score
    svcPc,      \* SearchService: where the call in flight is
    svcCall,    \* SearchService: the method called and its arguments
    svcLocal,   \* SearchService: the locals of the call in flight
    svcResult,  \* SearchService: how the promise of the last call settled
    svcCalls,   \* the number of SearchService calls made
    minHeap,    \* MinHeap.heap of a heap used on its own
    heapPc,     \* MinHeap: "idle" between calls, "bubbleDown" inside bubbleDown
    heapRet,    \* MinHeap: the last call, the heap it found and what it returned
    routePc,    \* GET /apex/search: where the handler is
    routeOut,   \* GET /apex/search: what the handler did for the request
    clientState, \* redis.utils: the state of the client _client refers to
    initPc,     \* initializeRedisClient: where each caller is
    initRet     \* initializeRedisClient: what each caller got

idxVars == <<index, documents, totalDocs, ret>>

trieVars == <<root, inserted, tret>>

levVars == <<levA, levB, levPc, levResult>>

topKVars == <<scored, topKLimit, topKHeap, cursor, topKItems, topKOutput, pc>>

tokVars == <<text, tokPc, tokRet>>

svcVars == <<client, cache, history, svcPc, svcCall, svcLocal, svcResult, svcCalls>>

heapVars == <<minHeap, heapPc, heapRet>>

routeVars == <<routePc, routeOut>>

initVars == <<clientState, initPc, initRet>>

vars == <<index, documents, totalDocs, ret, root, inserted, tret,
          levA, levB, levPc, levResult,
          scored, topKLimit, topKHeap, cursor, topKItems, topKOutput, pc,
          text, tokPc, tokRet,
          client, cache, history, svcPc, svcCall, svcLocal, svcResult, svcCalls,
          minHeap, heapPc, heapRet, routePc, routeOut, clientState, initPc, initRet>>

-----------------------------------------------------------------------------
(* Values of the host language *)

Undefined == "undefined"

\* An absent title: a sequence no string equals, so that documents compare
NoTitle == <<Undefined>>

Min2(a, b) == IF a <= b THEN a ELSE b

\* The n-th smallest element of a finite set of numbers
NthSmallest(S, n) == CHOOSE x \in S : Cardinality({y \in S : y < x}) = n - 1

-----------------------------------------------------------------------------
(* An insertion-ordered Map: a sequence of [key, val] with distinct keys *)

MapHas(m, k) == \E i \in 1..Len(m) : m[i].key = k

MapGet(m, k) == m[CHOOSE i \in 1..Len(m) : m[i].key = k].val

MapSet(m, k, v) ==
    IF MapHas(m, k)
    THEN [i \in 1..Len(m) |-> IF m[i].key = k THEN [key |-> k, val |-> v] ELSE m[i]]
    ELSE Append(m, [key |-> k, val |-> v])

MapKeys(m) == {m[i].key : i \in 1..Len(m)}

-----------------------------------------------------------------------------
(* textProcessor/tokenizer.ts and textProcessor/stopWords.ts *)

UpperLetters ==
    <<"A","B","C","D","E","F","G","H","I","J","K","L","M",
      "N","O","P","Q","R","S","T","U","V","W","X","Y","Z">>

LowerLetters ==
    <<"a","b","c","d","e","f","g","h","i","j","k","l","m",
      "n","o","p","q","r","s","t","u","v","w","x","y","z">>

Digits == {"0","1","2","3","4","5","6","7","8","9"}

Range(s) == {s[i] : i \in 1..Len(s)}

\* String.prototype.toLowerCase, one character
LowerChar(c) ==
    IF c \in Range(UpperLetters)
    THEN LowerLetters[CHOOSE i \in 1..Len(UpperLetters) : UpperLetters[i] = c]
    ELSE c

ToLowerCase(s) == [i \in 1..Len(s) |-> LowerChar(s[i])]

\* the characters of the class [a-zA-Z0-9+#.]
TokenChars == Range(LowerLetters) \cup Range(UpperLetters) \cup Digits \cup {"+", "#", "."}

IsTokenChar(c) == c \in TokenChars

\* Faulty variant: replace without the g flag deletes the first apostrophe only
RemoveFirstApostrophe(s) ==
    IF \E i \in 1..Len(s) : s[i] = "'"
    THEN LET first == CHOOSE i \in 1..Len(s) : s[i] = "'" /\ \A j \in 1..(i - 1) : s[j] # "'"
         IN  SubSeq(s, 1, first - 1) \o SubSeq(s, first + 1, Len(s))
    ELSE s

\* input.replace(/'/g, "")
RemoveApostrophes(s) == SelectSeq(s, LAMBDA c : c # "'")

\* s.match(/[a-zA-Z0-9+#.]+/g) || []: the maximal runs, left to right
RECURSIVE MatchRuns(_, _, _)
MatchRuns(s, i, cur) ==
    IF i > Len(s)
    THEN IF cur = <<>> THEN <<>> ELSE <<cur>>
    ELSE IF IsTokenChar(s[i])
         THEN MatchRuns(s, i + 1, Append(cur, s[i]))
         ELSE (IF cur = <<>> THEN <<>> ELSE <<cur>>) \o MatchRuns(s, i + 1, <<>>)

tokenizer(input) ==
    LET output  == RemoveApostrophes(input)
        matches == MatchRuns(ToLowerCase(output), 1, <<>>)
    IN  SelectSeq(matches, LAMBDA word : Len(word) > 1)

\* The members of STOP_WORDS that the model's texts can spell
STOP_WORDS ==
    { <<"a">>, <<"a","n">>, <<"a","s">>, <<"a","t">>, <<"b","e">>,
      <<"i","s">>, <<"i","t">>, <<"t","h","e">> }

removeStopWords(tokens) == SelectSeq(tokens, LAMBDA token : token \notin STOP_WORDS)

\* the character class \s, as far as the model's texts spell it
IsSpace(c) == c \in {" ", "\t", "\n"}

\* s.split(/\s+/): the pieces between the maximal runs of white space, the
\* empty piece before a leading run and after a trailing run included
RECURSIVE SplitOnWhitespace(_, _, _)
SplitOnWhitespace(s, i, cur) ==
    IF i > Len(s) THEN <<cur>>
    ELSE IF IsSpace(s[i])
         THEN IF i > 1 /\ IsSpace(s[i - 1])
              THEN SplitOnWhitespace(s, i + 1, cur)
              ELSE <<cur>> \o SplitOnWhitespace(s, i + 1, <<>>)
         ELSE SplitOnWhitespace(s, i + 1, Append(cur, s[i]))

\* word.replace(/[^a-zA-Z0-9+#.]/g, "")
CleanWord(word) == SelectSeq(word, IsTokenChar)

\* Faulty variant: one long word of the pair is enough for a phrase
PhraseStepEitherLong(words, i, phrases) ==
    LET cleanWord1 == CleanWord(words[i])
        cleanWord2 == CleanWord(words[i + 1])
    IN  IF Len(cleanWord1) > 2 \/ Len(cleanWord2) > 2
        THEN Append(phrases, cleanWord1 \o <<" ">> \o cleanWord2)
        ELSE phrases

\* The body of the loop of extractPhrases; words[i] here is words[i - 1] there
PhraseStep(words, i, phrases) ==
    LET cleanWord1 == CleanWord(words[i])
        cleanWord2 == CleanWord(words[i + 1])
    IN  IF Len(cleanWord1) > 2 /\ Len(cleanWord2) > 2
        THEN Append(phrases, cleanWord1 \o <<" ">> \o cleanWord2)
        ELSE phrases

\* for (let i = 0; i < words.length - 1; i++)
RECURSIVE PhraseLoop(_, _, _)
PhraseLoop(words, i, phrases) ==
    IF i > Len(words) - 1 THEN phrases
    ELSE PhraseLoop(words, i + 1, PhraseStep(words, i, phrases))

extractPhrases(input) ==
    PhraseLoop(SplitOnWhitespace(ToLowerCase(input), 1, <<>>), 1, <<>>)

-----------------------------------------------------------------------------
(* The calls made on the text processor *)

MaxTextLen == 4

TextAlphabet == {"a", "B", "+", "'", " ", "!"}

\* Every text over the alphabet up to the length bound
TokTexts == UNION { [1..n -> TextAlphabet] : n \in 0..MaxTextLen }

MaxWords == 3

\* Raw words: "abc", "a!Bc" (cleans to "abc"), "ab" and "+'" (too short), ""
PhraseWords ==
    { <<"a","b","c">>, <<"a","!","B","c">>, <<"a","b">>, <<"+","'">>, <<>> }

Separators == { <<" ">>, <<" ","\t">> }

\* Texts of one to MaxWords raw words with white space between them
RECURSIVE JoinedTexts(_)
JoinedTexts(n) ==
    IF n = 1 THEN PhraseWords
    ELSE { t \o sep \o w : t \in JoinedTexts(n - 1), sep \in Separators, w \in PhraseWords }

PhraseTexts == UNION { JoinedTexts(n) : n \in 1..MaxWords }

TokIdle ==
    /\ text = <<>>
    /\ tokPc = "idle"
    /\ tokRet = [op |-> "none"]

TokInit ==
    /\ text \in TokTexts \cup PhraseTexts
    /\ tokPc = "call"
    /\ tokRet = [op |-> "none"]

Tokenizer ==
    /\ tokPc = "call"
    /\ tokRet' = [op |-> "tokenizer", value |-> tokenizer(text)]
    /\ tokPc' = "return"
    /\ UNCHANGED text

ExtractPhrases ==
    /\ tokPc = "call"
    /\ tokRet' = [op |-> "extractPhrases", value |-> extractPhrases(text)]
    /\ tokPc' = "return"
    /\ UNCHANGED text

-----------------------------------------------------------------------------
(* index/invertedIndex: InvertedIndex *)

EmptyIndex == [t \in {} |-> 0]

\* doc.title ? `${doc.title} ${doc.content}` : doc.content
FullText(doc) ==
    IF doc.title # NoTitle /\ doc.title # <<>>
    THEN doc.title \o <<" ">> \o doc.content
    ELSE doc.content

\* Step 4 of addDocument: the local term count Map, in first-occurrence order
RECURSIVE TermCounts(_, _)
TermCounts(tokens, termCounts) ==
    IF tokens = <<>> THEN termCounts
    ELSE LET token == Head(tokens)
             old   == IF MapHas(termCounts, token) THEN MapGet(termCounts, token) ELSE 0
         IN  TermCounts(Tail(tokens), MapSet(termCounts, token, old + 1))

\* Faulty variant: the document frequency is counted up instead of recomputed
UpdateEntryCountingDf(idx, term, count, id) ==
    LET entry  == IF term \in DOMAIN idx THEN idx[term]
                  ELSE [docIds |-> {}, tf |-> <<>>, df |-> 0]
        docIds == entry.docIds \cup {id}
        new    == [docIds |-> docIds, tf |-> MapSet(entry.tf, id, count), df |-> entry.df + 1]
    IN  [t \in DOMAIN idx \cup {term} |-> IF t = term THEN new ELSE idx[t]]

\* Faulty variant: the entry of a term is rebuilt for the document, not extended
UpdateEntryReplacing(idx, term, count, id) ==
    LET new == [docIds |-> {id}, tf |-> <<[key |-> id, val |-> count]>>, df |-> 1]
    IN  [t \in DOMAIN idx \cup {term} |-> IF t = term THEN new ELSE idx[t]]

\* One iteration of step 5 of addDocument
UpdateEntry(idx, term, count, id) ==
    LET entry  == IF term \in DOMAIN idx THEN idx[term]
                  ELSE [docIds |-> {}, tf |-> <<>>, df |-> 0]
        docIds == entry.docIds \cup {id}
        new    == [docIds |-> docIds,
                   tf     |-> MapSet(entry.tf, id, count),
                   df     |-> Cardinality(docIds)]
    IN  [t \in DOMAIN idx \cup {term} |-> IF t = term THEN new ELSE idx[t]]

\* Step 5 of addDocument: the loop over termCounts
RECURSIVE UpdateIndex(_, _, _)
UpdateIndex(idx, termCounts, id) ==
    IF termCounts = <<>> THEN idx
    ELSE UpdateIndex(UpdateEntry(idx, Head(termCounts).key, Head(termCounts).val, id),
                     Tail(termCounts), id)

\* Faulty variant: only the content is indexed, the title is ignored
DocTokensContentOnly(doc) == removeStopWords(tokenizer(doc.content))

\* Faulty variant: the stop words of a document are indexed too
DocTokensKeepingStopWords(doc) == tokenizer(FullText(doc))

\* Steps 1 to 3 of addDocument
DocTokens(doc) == removeStopWords(tokenizer(FullText(doc)))

\* Faulty variant: the postings are written but the document is not stored
addDocumentWithoutStoring(doc) ==
    /\ index' = UpdateIndex(index, TermCounts(DocTokens(doc), <<>>), doc.id)
    /\ documents' = documents
    /\ totalDocs' = totalDocs + 1
    /\ ret' = [op |-> "addDocument", doc |-> doc, fresh |-> doc.id \notin DOMAIN documents]

\* Faulty variant: the postings of the id are retracted before the document is indexed
addDocumentRetracting(doc) ==
    LET retracted == [t \in DOMAIN index |->
                         [docIds |-> index[t].docIds \ {doc.id},
                          tf     |-> SelectSeq(index[t].tf, LAMBDA e : e.key # doc.id),
                          df     |-> Cardinality(index[t].docIds \ {doc.id})]]
    IN  /\ index' = UpdateIndex(retracted, TermCounts(DocTokens(doc), <<>>), doc.id)
        /\ documents' = [d \in DOMAIN documents \cup {doc.id} |->
                            IF d = doc.id THEN doc ELSE documents[d]]
        /\ totalDocs' = totalDocs + 1
        /\ ret' = [op |-> "addDocument", doc |-> doc, fresh |-> doc.id \notin DOMAIN documents]

addDocument(doc) ==
    /\ index' = UpdateIndex(index, TermCounts(DocTokens(doc), <<>>), doc.id)
    /\ documents' = [d \in DOMAIN documents \cup {doc.id} |->
                        IF d = doc.id THEN doc ELSE documents[d]]
    /\ totalDocs' = totalDocs + 1
    /\ ret' = [op |-> "addDocument", doc |-> doc, fresh |-> doc.id \notin DOMAIN documents]

getDocument(docId) == IF docId \in DOMAIN documents THEN documents[docId] ELSE Undefined

-----------------------------------------------------------------------------
(* InvertedIndex.search *)

\* results.sort((a, b) => b.score - a.score): Array.prototype.sort is stable
RECURSIVE InsertByScore(_, _)
InsertByScore(sorted, x) ==
    IF sorted = <<>> THEN <<x>>
    ELSE IF Head(sorted).score >= x.score
         THEN <<Head(sorted)>> \o InsertByScore(Tail(sorted), x)
         ELSE <<x>> \o sorted

RECURSIVE SortByScoreDesc(_)
SortByScoreDesc(s) ==
    IF s = <<>> THEN <<>>
    ELSE InsertByScore(SortByScoreDesc(SubSeq(s, 1, Len(s) - 1)), s[Len(s)])

\* Faulty variant: a later query term overwrites the score instead of adding to it
AccumulateOverwriting(docScores, tf) ==
    IF tf = <<>> THEN docScores
    ELSE LET RECURSIVE Go(_, _)
             Go(acc, rest) ==
                 IF rest = <<>> THEN acc
                 ELSE Go(MapSet(acc, Head(rest).key,
                                [tf |-> Head(rest).val, matches |-> 1]), Tail(rest))
         IN  Go(docScores, tf)

\* The inner loop of search: for (const [docId, termFreq] of entry.tf)
RECURSIVE Accumulate(_, _)
Accumulate(docScores, tf) ==
    IF tf = <<>> THEN docScores
    ELSE LET docId    == Head(tf).key
             existing == IF MapHas(docScores, docId) THEN MapGet(docScores, docId)
                         ELSE [tf |-> 0, matches |-> 0]
             updated  == [tf |-> existing.tf + Head(tf).val,
                          matches |-> existing.matches + 1]
         IN  Accumulate(MapSet(docScores, docId, updated), Tail(tf))

\* The outer loop of search: for (const term of queryTokens)
RECURSIVE ScoreTerms(_, _, _)
ScoreTerms(idx, queryTokens, docScores) ==
    IF queryTokens = <<>> THEN docScores
    ELSE IF Head(queryTokens) \notin DOMAIN idx
         THEN ScoreTerms(idx, Tail(queryTokens), docScores)
         ELSE ScoreTerms(idx, Tail(queryTokens),
                         Accumulate(docScores, idx[Head(queryTokens)].tf))

\* Faulty variant: a term repeated in the query is kept once
RECURSIVE KeepFirstOccurrences(_, _)
KeepFirstOccurrences(tokens, kept) ==
    IF tokens = <<>> THEN kept
    ELSE KeepFirstOccurrences(Tail(tokens),
                              IF \E i \in 1..Len(kept) : kept[i] = Head(tokens)
                              THEN kept ELSE Append(kept, Head(tokens)))

QueryTokensDeduplicated(query) ==
    KeepFirstOccurrences(removeStopWords(tokenizer(query)), <<>>)

QueryTokens(query) == removeStopWords(tokenizer(query))

search(idx, query) ==
    LET queryTokens == QueryTokens(query)
        docScores   == ScoreTerms(idx, queryTokens, <<>>)
        results     == [i \in 1..Len(docScores) |->
                           [documentId    |-> docScores[i].key,
                            score         |-> docScores[i].val.tf,
                            termFrequency |-> docScores[i].val.tf]]
    IN  IF Len(queryTokens) = 0 THEN <<>> ELSE SortByScoreDesc(results)

-----------------------------------------------------------------------------
(* The calls made on the index *)

MaxAdds == 3

DocIds == {"1", "2"}

Titles == { NoTitle, <<"A","b">> }

Contents ==
    { <<"a","b"," ","b","a">>,                   \* "ab ba"
      <<"b","e"," ","a","b"," ","A","B","!">>,   \* "be ab AB!"
      <<"b","'","a"," ","a">> }                  \* "b'a a"

Docs == [id : DocIds, title : Titles, content : Contents]

Queries ==
    { <<>>,                                      \* ""
      <<"t","h","e"," ","b","e">>,               \* "the be"
      <<"a"," ","b">>,                           \* "a b"
      <<"a","b">>,                               \* "ab"
      <<"B","a","?">>,                           \* "Ba?"
      <<"a","b"," ","b","a">>,                   \* "ab ba"
      <<"a","b"," ","a","b">>,                   \* "ab ab"
      <<"z","z"," ","a","b">>,                   \* "zz ab"
      <<"b","e"," ","a","b">>,                   \* "be ab"
      <<"z","z">> }                              \* "zz"

LookupIds == DocIds \cup {"3"}

IdxInit ==
    /\ index = EmptyIndex
    /\ documents = EmptyIndex
    /\ totalDocs = 0
    /\ ret = [op |-> "new"]

AddDocument ==
    /\ totalDocs < MaxAdds
    /\ \E doc \in Docs : addDocument(doc)

\* Faulty variant: a query term missing from the index gets an empty posting entry
SearchCreatingEntries ==
    \E query \in Queries :
        /\ ret' = [op |-> "search", query |-> query, results |-> search(index, query)]
        /\ index' = [t \in DOMAIN index \cup Range(QueryTokens(query)) |->
                        IF t \in DOMAIN index THEN index[t]
                        ELSE [docIds |-> {}, tf |-> <<>>, df |-> 0]]
        /\ UNCHANGED <<documents, totalDocs>>

Search ==
    \E query \in Queries :
        /\ ret' = [op |-> "search", query |-> query, results |-> search(index, query)]
        /\ UNCHANGED <<index, documents, totalDocs>>

GetDocument ==
    \E docId \in LookupIds :
        /\ ret' = [op |-> "getDocument", id |-> docId, doc |-> getDocument(docId)]
        /\ UNCHANGED <<index, documents, totalDocs>>


-----------------------------------------------------------------------------
(* autocomplete/trie.ts: TrieNode and Trie *)

\* new TrieNode()
NewTrieNode == [children |-> <<>>, isEndOfWord |-> FALSE]

\* Faulty variant: every node on the path of the word is marked as the end of a word
RECURSIVE InsertMarkingPath(_, _)
InsertMarkingPath(node, word) ==
    IF word = <<>> THEN [node EXCEPT !.isEndOfWord = TRUE]
    ELSE LET letter == Head(word)
             child  == IF MapHas(node.children, letter)
                       THEN MapGet(node.children, letter) ELSE NewTrieNode
         IN  [children    |-> MapSet(node.children, letter,
                                     InsertMarkingPath(child, Tail(word))),
              isEndOfWord |-> TRUE]

\* Trie.insert from the node curr on: one loop iteration per letter, then the
\* mark on the node reached
RECURSIVE InsertAt(_, _)
InsertAt(node, word) ==
    IF word = <<>> THEN [node EXCEPT !.isEndOfWord = TRUE]
    ELSE LET letter == Head(word)
             child  == IF MapHas(node.children, letter)
                       THEN MapGet(node.children, letter) ELSE NewTrieNode
         IN  [node EXCEPT !.children =
                  MapSet(node.children, letter, InsertAt(child, Tail(word)))]

NotFound == [notFound |-> TRUE]

\* The prefix walk of getSuggestions; NotFound where the code returns []
RECURSIVE WalkPrefix(_, _)
WalkPrefix(node, prefix) ==
    IF prefix = <<>> THEN node
    ELSE IF ~MapHas(node.children, Head(prefix)) THEN NotFound
         ELSE WalkPrefix(MapGet(node.children, Head(prefix)), Tail(prefix))

RECURSIVE collectWords(_, _, _, _)
RECURSIVE CollectChildren(_, _, _, _)

\* Faulty variant: the traversal stops below a node that ends a word
collectWordsStoppingAtWord(node, currentWord, results, limit) ==
    IF Len(results) >= limit THEN results
    ELSE IF node.isEndOfWord THEN Append(results, currentWord)
         ELSE CollectChildren(node.children, currentWord, results, limit)

\* Faulty variant: the limit test is off by one
collectWordsOffByOne(node, currentWord, results, limit) ==
    IF Len(results) > limit THEN results
    ELSE CollectChildren(node.children, currentWord,
                         IF node.isEndOfWord THEN Append(results, currentWord)
                         ELSE results,
                         limit)

\* collectWords of getSuggestions; results is threaded through the recursion
collectWords(node, currentWord, results, limit) ==
    IF Len(results) >= limit THEN results
    ELSE CollectChildren(node.children, currentWord,
                         IF node.isEndOfWord THEN Append(results, currentWord)
                         ELSE results,
                         limit)

\* for (const [char, childNode] of node.children) collectWords(...)
CollectChildren(children, currentWord, results, limit) ==
    IF children = <<>> THEN results
    ELSE CollectChildren(Tail(children), currentWord,
                         collectWords(Head(children).val,
                                      Append(currentWord, Head(children).key),
                                      results, limit),
                         limit)

getSuggestions(node, prefix, limit) ==
    LET curr == WalkPrefix(node, prefix)
    IN  IF curr = NotFound THEN <<>> ELSE collectWords(curr, prefix, <<>>, limit)

\* for (const word of words) if (!insertedWords.has(word)) { insert; add }
\* on the pair of the root and the local Set insertedWords
RECURSIVE InsertUnseen(_, _)
InsertUnseen(build, words) ==
    IF words = <<>> THEN build
    ELSE IF Head(words) \in build.insertedWords
         THEN InsertUnseen(build, Tail(words))
         ELSE InsertUnseen([root          |-> InsertAt(build.root, Head(words)),
                            insertedWords |-> build.insertedWords \cup {Head(words)}],
                           Tail(words))

\* The body of the loop over documents: the words, then the phrases
BuildDocument(build, doc) ==
    LET fullText == FullText(doc)
        words    == tokenizer(fullText)
        phrases  == extractPhrases(fullText)
    IN  InsertUnseen(InsertUnseen(build, words), phrases)

RECURSIVE BuildLoop(_, _)
BuildLoop(build, docs) ==
    IF docs = <<>> THEN build
    ELSE BuildLoop(BuildDocument(build, Head(docs)), Tail(docs))

\* Faulty variant: the existing root is kept instead of a new TrieNode
buildFromDocumentsKeepingRoot(docs) ==
    BuildLoop([root |-> root, insertedWords |-> {}], docs)

\* Trie.buildFromDocuments with tokenizer and extractPhrases passed in: the
\* new root and the final insertedWords
buildFromDocuments(docs) ==
    BuildLoop([root |-> NewTrieNode, insertedWords |-> {}], docs)

-----------------------------------------------------------------------------
(* The calls made on the trie *)

MaxInserts == 3

MaxLimit == 3

TrieWords ==
    { <<"a">>, <<"a","b">>, <<"a","b","c">>, <<"a","c">>, <<"b","a">> }

Prefixes ==
    { <<>>, <<"a">>, <<"a","b">>, <<"a","b","c">>, <<"a","c">>, <<"b">>,
      <<"b","a">>, <<"c">>, <<"a","b","d">> }

TrieInit ==
    /\ root = NewTrieNode
    /\ inserted = {}
    /\ tret = [op |-> "new"]

Insert ==
    \E word \in TrieWords :
        /\ Cardinality(inserted \cup {word}) <= MaxInserts
        /\ root' = InsertAt(root, word)
        /\ inserted' = inserted \cup {word}
        /\ tret' = [op |-> "insert", word |-> word]

MaxBuildDocs == 2

\* "abc abd"; "Abc" + "ab abc"
TrieDocs ==
    { [id |-> "1", title |-> NoTitle, content |-> <<"a","b","c"," ","a","b","d">>],
      [id |-> "2", title |-> <<"A","b","c">>, content |-> <<"a","b"," ","a","b","c">>] }

DocLists == UNION { [1..n -> TrieDocs] : n \in 0..MaxBuildDocs }

BuildFromDocuments ==
    \E docs \in DocLists :
        /\ LET built == buildFromDocuments(docs)
           IN  /\ root' = built.root
               /\ inserted' = built.insertedWords
        /\ tret' = [op |-> "buildFromDocuments", docs |-> docs, before |-> inserted]

GetSuggestions ==
    \E prefix \in Prefixes, limit \in 0..MaxLimit :
        /\ tret' = [op |-> "getSuggestions", prefix |-> prefix, limit |-> limit,
                    results |-> getSuggestions(root, prefix, limit)]
        /\ UNCHANGED <<root, inserted>>

-----------------------------------------------------------------------------
(* utils/levenshtein.utils.ts: levenshteinDistance *)

Min3(a, b, c) == Min2(a, Min2(b, c))

\* Faulty variant: a substitution is not offered, so it costs a deletion and an insertion
LevCellNoSubstitute(str1, str2, i, j, up, left, diag) ==
    IF str1[i] = str2[j] THEN diag ELSE 1 + Min2(up, left)

\* The body of the inner loop: dp[i][j] from dp[i-1][j], dp[i][j-1], dp[i-1][j-1]
LevCell(str1, str2, i, j, up, left, diag) ==
    IF str1[i] = str2[j] THEN diag ELSE 1 + Min3(up, left, diag)

\* Row i of the table, left to right; row[j + 1] is dp[i][j], dp[i][0] = i
RECURSIVE LevRow(_, _, _, _, _)
LevRow(str1, str2, i, prev, cur) ==
    IF Len(cur) = Len(prev) THEN cur
    ELSE LET j == Len(cur)
         IN  LevRow(str1, str2, i, prev,
                    Append(cur, LevCell(str1, str2, i, j, prev[j + 1], cur[j], prev[j])))

\* The outer loop: dp[r + 1] is row r of the table
RECURSIVE LevTable(_, _, _, _)
LevTable(str1, str2, i, dp) ==
    IF i > Len(str1) THEN dp
    ELSE LevTable(str1, str2, i + 1,
                  Append(dp, LevRow(str1, str2, i, dp[i], <<i>>)))

\* Faulty variant: only an empty first argument returns 0 early; an empty
\* second argument reads the table, whose column 0 holds the length of str1
levenshteinDistanceHalfGuarded(str1, str2) ==
    IF str1 = <<>> THEN 0
    ELSE LET m  == Len(str1)
             n  == Len(str2)
             dp == LevTable(str1, str2, 1, << [j \in 1..(n + 1) |-> j - 1] >>)
         IN  dp[m + 1][n + 1]

levenshteinDistance(str1, str2) ==
    IF str1 = <<>> THEN 0
    ELSE IF str2 = <<>> THEN 0
    ELSE LET m  == Len(str1)
             n  == Len(str2)
             dp == LevTable(str1, str2, 1, << [j \in 1..(n + 1) |-> j - 1] >>)
         IN  dp[m + 1][n + 1]

MaxStrLen == 3

LevAlphabet == {"a", "b", "c"}

LevStrings == UNION { [1..n -> LevAlphabet] : n \in 0..MaxStrLen }

Kitten == <<"k","i","t","t","e","n">>

Sitting == <<"s","i","t","t","i","n","g">>

LevIdle ==
    /\ levA = <<>>
    /\ levB = <<>>
    /\ levPc = "idle"
    /\ levResult = 0

LevInit ==
    /\ \E pair \in (LevStrings \X LevStrings) \cup {<<Kitten, Sitting>>} :
           /\ levA = pair[1]
           /\ levB = pair[2]
    /\ levPc = "call"
    /\ levResult = 0

LevenshteinDistance ==
    /\ levPc = "call"
    /\ levResult' = levenshteinDistance(levA, levB)
    /\ levPc' = "return"
    /\ UNCHANGED <<levA, levB>>

-----------------------------------------------------------------------------
(* utils/levenshtein.utils.ts: findClosestTerm *)

\* let minDistance = Infinity, and the numbers it is compared with
Infinity == [finite |-> FALSE, value |-> 0]

Finite(n) == [finite |-> TRUE, value |-> n]

Less(n, x) == ~x.finite \/ n < x.value

Equal(n, x) == x.finite /\ n = x.value

AtMost(x, n) == x.finite /\ x.value <= n

MaxCorrectionDistance == 3

\* s[0]: undefined for the empty string
FirstChar(s) == IF s = <<>> THEN Undefined ELSE s[1]

\* invertedIndex.getSortedTerms(): the indexed terms, in every possible order
getSortedTerms(idx) ==
    { terms \in [1..Cardinality(DOMAIN idx) -> DOMAIN idx] : Range(terms) = DOMAIN idx }

\* invertedIndex.getIndexEntry(term)?.df || 0
EntryDf(idx, term) == IF term \in DOMAIN idx THEN idx[term].df ELSE 0

\* Faulty variant: the closest term is chosen by distance alone, ties keep the first
ClosestStepNoTieBreak(idx, query, best, term) ==
    LET distance     == levenshteinDistance(query, term)
        documentFrec == EntryDf(idx, term)
    IN  IF Less(distance, best.minDistance)
        THEN [closestTerm |-> <<term>>, minDistance |-> Finite(distance),
              maxDf |-> documentFrec]
        ELSE best

\* One iteration of the loop over validCandidates; closestTerm is <<>> for
\* null and <<term>> for a term
ClosestStep(idx, query, best, term) ==
    LET distance     == levenshteinDistance(query, term)
        documentFrec == EntryDf(idx, term)
    IN  IF \/ Less(distance, best.minDistance)
           \/ (Equal(distance, best.minDistance) /\ documentFrec > best.maxDf)
        THEN [closestTerm |-> <<term>>, minDistance |-> Finite(distance),
              maxDf |-> documentFrec]
        ELSE best

RECURSIVE ClosestLoop(_, _, _, _)
ClosestLoop(idx, query, best, candidates) ==
    IF candidates = <<>> THEN best
    ELSE ClosestLoop(idx, query, ClosestStep(idx, query, best, Head(candidates)),
                     Tail(candidates))

\* findClosestTerm, given the array getSortedTerms returned; the result is
\* <<>> for null and <<term>> for a term
findClosestTerm(idx, terms, query) ==
    LET validCandidates == SelectSeq(terms, LAMBDA t : FirstChar(t) = FirstChar(query))
        best == ClosestLoop(idx, query,
                            [closestTerm |-> <<>>, minDistance |-> Infinity, maxDf |-> 0],
                            validCandidates)
    IN  IF AtMost(best.minDistance, MaxCorrectionDistance) /\ best.closestTerm # <<>>
        THEN best.closestTerm
        ELSE <<>>

FuzzyContents ==
    { <<"a","b"," ","a","c">>,                 \* "ab ac"
      <<"a","b"," ","b","a","b">>,             \* "ab bab"
      <<"a","c"," ","a","b","c","d">> }        \* "ac abcd"

FuzzyDocs == [id : DocIds, title : {NoTitle}, content : FuzzyContents]

FuzzyQueries ==
    { <<>>,                                    \* ""
      <<"a","d">>,                             \* "ad"
      <<"a","b","c">>,                         \* "abc"
      <<"b","z","z","z">>,                     \* "bzzz"
      <<"b","z","z","z","z">>,                 \* "bzzzz"
      <<"z","z">> }                            \* "zz"

AddFuzzyDocument ==
    /\ totalDocs < MaxAdds
    /\ \E doc \in FuzzyDocs : addDocument(doc)

FindClosestTerm ==
    \E query \in FuzzyQueries, terms \in getSortedTerms(index) :
        /\ ret' = [op |-> "findClosestTerm", query |-> query,
                   result |-> findClosestTerm(index, terms, query)]
        /\ UNCHANGED <<index, documents, totalDocs>>

-----------------------------------------------------------------------------
(* autocomplete/minHeap: MinHeap. heap[i + 1] here is this.heap[i] there. *)

\* The comparator autocomplete passes: (a, b) => b.score - a.score
compare(a, b) == b.score - a.score

Swap(heap, i, j) ==
    [k \in 1..Len(heap) |-> IF k = i THEN heap[j] ELSE IF k = j THEN heap[i] ELSE heap[k]]

\* bubbleUp(index): parentIndex = Math.floor(index / 1 / 2)
RECURSIVE bubbleUp(_, _)
bubbleUp(heap, idx) ==
    IF idx > 0
    THEN LET parentIndex == idx \div 2
         IN  IF compare(heap[idx + 1], heap[parentIndex + 1]) >= 0
             THEN heap
             ELSE bubbleUp(Swap(heap, idx + 1, parentIndex + 1), parentIndex)
    ELSE heap

push(heap, element) == bubbleUp(Append(heap, element), Len(heap))

\* bubbleDown(index) is `while (true) {}`: it never returns and changes nothing
bubbleDown(heap, idx) == [returns |-> FALSE, heap |-> heap]

\* pop(): the heap left, the value returned (<<>> for undefined, <<x>> for x)
\* and whether the call returns
pop(heap) ==
    IF Len(heap) = 0
    THEN [heap |-> heap, value |-> <<>>, returns |-> TRUE]
    ELSE IF Len(heap) = 1
    THEN [heap |-> <<>>, value |-> <<heap[1]>>, returns |-> TRUE]
    ELSE LET min  == heap[1]
             last == heap[Len(heap)]
             down == bubbleDown([SubSeq(heap, 1, Len(heap) - 1) EXCEPT ![1] = last], 0)
         IN  [heap |-> down.heap, value |-> <<min>>, returns |-> down.returns]

\* topKHeap.peek()?.score ?? 0
PeekScore(heap) == IF Len(heap) = 0 THEN 0 ELSE heap[1].score

-----------------------------------------------------------------------------
(* The calls made on a MinHeap used on its own *)

MaxHeapSize == 7

MaxHeapScore == 2

HeapElements == [term : {0}, score : 0..MaxHeapScore]

HeapIdle ==
    /\ minHeap = <<>>
    /\ heapPc = "idle"
    /\ heapRet = [op |-> "new"]

Push ==
    /\ heapPc = "idle"
    /\ Len(minHeap) < MaxHeapSize
    /\ \E element \in HeapElements :
           /\ minHeap' = push(minHeap, element)
           /\ heapRet' = [op |-> "push", before |-> minHeap, element |-> element]
    /\ UNCHANGED heapPc

\* pop(): it returns, or it is left inside bubbleDown with the last element
\* already moved to the root
Pop ==
    /\ heapPc = "idle"
    /\ LET popped == pop(minHeap)
       IN  /\ minHeap' = popped.heap
           /\ heapRet' = [op |-> "pop", before |-> minHeap, value |-> popped.value,
                          returns |-> popped.returns]
           /\ heapPc' = IF popped.returns THEN "idle" ELSE "bubbleDown"

\* bubbleDown spinning in its loop
BubbleDownSpins ==
    /\ heapPc = "bubbleDown"
    /\ UNCHANGED heapVars

-----------------------------------------------------------------------------
(* services/searchService: the top-K selection of autocomplete *)

MaxCandidates == 3

MaxScore == 2

MaxK == 2

\* Candidate lists: the i-th candidate has the term i, so terms are distinct
ScoredLists ==
    UNION { [1..n -> [term : 1..n, score : 0..MaxScore]] : n \in 0..MaxCandidates }

TopKIdle ==
    /\ scored = <<>>
    /\ topKLimit = 0
    /\ topKHeap = <<>>
    /\ cursor = 0
    /\ topKItems = <<>>
    /\ topKOutput = <<>>
    /\ pc = "idle"

TopKInit ==
    /\ scored \in {s \in ScoredLists : \A i \in 1..Len(s) : s[i].term = i}
    /\ topKLimit \in 0..MaxK
    /\ topKHeap = <<>>
    /\ cursor = 0
    /\ topKItems = <<>>
    /\ topKOutput = <<>>
    /\ pc = "loop"

\* One iteration of: for (const item of scored)
TopKStep ==
    /\ pc = "loop"
    /\ cursor < Len(scored)
    /\ LET item == scored[cursor + 1]
       IN  IF Len(topKHeap) < topKLimit
           THEN /\ topKHeap' = push(topKHeap, item)
                /\ pc' = pc
           ELSE IF item.score > PeekScore(topKHeap)
           THEN IF pop(topKHeap).returns
                THEN /\ topKHeap' = push(pop(topKHeap).heap, item)
                     /\ pc' = pc
                ELSE /\ topKHeap' = pop(topKHeap).heap
                     /\ pc' = "bubbleDown"
           ELSE UNCHANGED <<topKHeap, pc>>
    /\ cursor' = cursor + 1
    /\ UNCHANGED <<scored, topKLimit, topKItems, topKOutput>>

\* The for loop is over
TopKLoopEnd ==
    /\ pc = "loop"
    /\ cursor = Len(scored)
    /\ pc' = "drain"
    /\ UNCHANGED <<scored, topKLimit, topKHeap, cursor, topKItems, topKOutput>>

\* One iteration of: while (topKHeap.size > 0) topKItems.push(topKHeap.pop()!)
TopKDrain ==
    /\ pc = "drain"
    /\ Len(topKHeap) > 0
    /\ topKHeap' = pop(topKHeap).heap
    /\ IF pop(topKHeap).returns
       THEN /\ topKItems' = topKItems \o pop(topKHeap).value
            /\ pc' = pc
       ELSE /\ topKItems' = topKItems
            /\ pc' = "bubbleDown"
    /\ UNCHANGED <<scored, topKLimit, cursor, topKOutput>>

\* return topKItems.sort((a, b) => b.score - a.score).map((s) => s.term)
TopKReturn ==
    /\ pc = "drain"
    /\ Len(topKHeap) = 0
    /\ topKOutput' = [i \in 1..Len(topKItems) |-> SortByScoreDesc(topKItems)[i].term]
    /\ pc' = "done"
    /\ UNCHANGED <<scored, topKLimit, topKHeap, cursor, topKItems>>

\* bubbleDown spinning in its loop
TopKBubbleDown ==
    /\ pc = "bubbleDown"
    /\ UNCHANGED topKVars

-----------------------------------------------------------------------------
(* utils/redis.utils.ts and services/searchService.ts: SearchService.search *)

RouteIdle ==
    /\ routePc = "idle"
    /\ routeOut = [status |-> "none"]

MaxInitCallers == 3

InitCallers == 1..MaxInitCallers

\* No client was created and no caller has called initializeRedisClient
RedisIdle ==
    /\ clientState = <<>>
    /\ initPc = [c \in InitCallers |-> "idle"]
    /\ initRet = [c \in InitCallers |-> [status |-> "none"]]

NoClient == "null"

Connected == "client"

\* getRedisClient(): throws while _client is null
getRedisClientThrows == client = NoClient

DigitChars == <<"0","1","2","3","4","5","6","7","8","9">>

\* `${n}` for a natural number
RECURSIVE NumberToString(_)
NumberToString(n) ==
    IF n < 10 THEN <<DigitChars[n + 1]>>
    ELSE NumberToString(n \div 10) \o <<DigitChars[(n % 10) + 1]>>

\* `search:${query}:${page}:${limit}`
CacheKey(query, page, limit) ==
    <<"s","e","a","r","c","h",":">> \o query \o <<":">> \o NumberToString(page)
        \o <<":">> \o NumberToString(limit)

CacheTtlSeconds == 300

\* Array.prototype.slice(start, end)
Slice(arr, start, end) ==
    LET len  == Len(arr)
        from == IF start < 0 THEN (IF len + start < 0 THEN 0 ELSE len + start)
                ELSE Min2(start, len)
        to   == IF end < 0 THEN (IF len + end < 0 THEN 0 ELSE len + end)
                ELSE Min2(end, len)
    IN  IF from < to THEN SubSeq(arr, from + 1, to) ELSE <<>>

\* Math.ceil(total / limit) for limit >= 1
CeilDiv(total, limit) == (total + limit - 1) \div limit

\* The row of one result: doc?.title and doc?.url are undefined when absent;
\* the documents of the model carry no url
ResultWithDoc(result) ==
    LET doc == getDocument(result.documentId)
    IN  [documentId |-> result.documentId,
         score      |-> result.score,
         title      |-> doc.title,
         url        |-> Undefined,
         content    |-> doc.content]

\* Faulty variant: the slice starts at page * limit, so page 1 shows the second page
SearchResponseOffByOnePage(query, page, limit) ==
    LET results         == search(index, query)
        resultsWithDocs == [i \in 1..Len(results) |-> ResultWithDoc(results[i])]
        startIndex      == page * limit
        endIndex        == startIndex + limit
    IN  [results    |-> Slice(resultsWithDocs, startIndex, endIndex),
         pagination |-> [total      |-> Len(results),
                         page       |-> page,
                         limit      |-> limit,
                         totalPages |-> CeilDiv(Len(results), limit)]]

\* The response search computes from the index
SearchResponse(query, page, limit) ==
    LET results         == search(index, query)
        resultsWithDocs == [i \in 1..Len(results) |-> ResultWithDoc(results[i])]
        startIndex      == (page - 1) * limit
        endIndex        == startIndex + limit
    IN  [results    |-> Slice(resultsWithDocs, startIndex, endIndex),
         pagination |-> [total      |-> Len(results),
                         page       |-> page,
                         limit      |-> limit,
                         totalPages |-> CeilDiv(Len(results), limit)]]

\* JSON.stringify drops the properties whose value is undefined
JSONStringifyRow(row) ==
    LET kept == {"documentId", "score", "content"}
                    \cup (IF row.title = NoTitle THEN {} ELSE {"title"})
                    \cup (IF row.url = Undefined THEN {} ELSE {"url"})
    IN  [f \in kept |-> row[f]]

JSONStringify(response) ==
    [json |-> [results    |-> [i \in 1..Len(response.results) |->
                                  JSONStringifyRow(response.results[i])],
               pagination |-> response.pagination]]

JSONParse(string) == string.json

-----------------------------------------------------------------------------
(* The calls made on the search service *)

MaxCalls == 2

MaxSvcAdds == 2

\* (page, limit): the first and the second page of size 1, a page of size 2
PageLimits == { <<1, 1>>, <<2, 1>>, <<1, 2>> }

SvcQueries ==
    { <<"a","b">>,                               \* "ab"
      <<"b","e"," ","b","a">> }                  \* "be ba"

SvcDocs ==
    { [id |-> "1", title |-> NoTitle, content |-> <<"a","b"," ","b","a">>],
      [id |-> "2", title |-> <<"A","b">>, content |-> <<"a","b">>] }

SvcIdle ==
    /\ client = NoClient
    /\ cache = EmptyIndex
    /\ history = EmptyIndex
    /\ svcPc = "idle"
    /\ svcCall = [op |-> "none"]
    /\ svcLocal = [op |-> "none"]
    /\ svcResult = [status |-> "none"]
    /\ svcCalls = 0

AddSvcDocument ==
    /\ totalDocs < MaxSvcAdds
    /\ \E doc \in SvcDocs : addDocument(doc)

\* initializeRedisClient() run to its end: connect() succeeded and _client is
\* the client, or it failed and _client is null again
InitializeRedisClient ==
    /\ client = NoClient
    /\ \E connected \in BOOLEAN : client' = IF connected THEN Connected ELSE NoClient
    /\ UNCHANGED <<cache, history, svcPc, svcCall, svcLocal, svcResult, svcCalls>>

\* initializeRedisClient() up to its first await. clientState holds the state
\* of every client created so far; _client, when not null, is the last one.
\* With _client null a client is created and assigned and connect() is
\* awaited; otherwise _client is returned as it is.
InitializeCall ==
    \E c \in InitCallers :
        /\ initPc[c] = "idle"
        /\ IF client = NoClient
           THEN /\ client' = Connected
                /\ clientState' = Append(clientState, "connecting")
                /\ initPc' = [initPc EXCEPT ![c] = "connect"]
                /\ UNCHANGED initRet
           ELSE /\ initPc' = [initPc EXCEPT ![c] = "returned"]
                /\ initRet' = [initRet EXCEPT ![c] =
                                  [status |-> "returned",
                                   client |-> Len(clientState),
                                   state  |-> clientState[Len(clientState)]]]
                /\ UNCHANGED <<client, clientState>>
        /\ UNCHANGED <<cache, history, svcPc, svcCall, svcLocal, svcResult, svcCalls>>

\* await _client.connect() settles: on success _client is returned; on failure
\* the catch block awaits _client.quit()
InitializeConnectSettles ==
    \E c \in InitCallers, connected \in BOOLEAN :
        /\ initPc[c] = "connect"
        /\ IF connected
           THEN /\ clientState' = [clientState EXCEPT ![Len(clientState)] = "ready"]
                /\ initPc' = [initPc EXCEPT ![c] = "returned"]
                /\ initRet' = [initRet EXCEPT ![c] =
                                  [status |-> "returned",
                                   client |-> Len(clientState),
                                   state  |-> "ready"]]
           ELSE /\ clientState' = [clientState EXCEPT ![Len(clientState)] = "closing"]
                /\ initPc' = [initPc EXCEPT ![c] = "quit"]
                /\ UNCHANGED initRet
        /\ UNCHANGED <<client, cache, history, svcPc, svcCall, svcLocal, svcResult, svcCalls>>

\* await _client.quit().catch(() => {}) settles: _client = null; throw error
InitializeQuitSettles ==
    \E c \in InitCallers :
        /\ initPc[c] = "quit"
        /\ client' = NoClient
        /\ clientState' = [clientState EXCEPT ![Len(clientState)] = "closed"]
        /\ initPc' = [initPc EXCEPT ![c] = "threw"]
        /\ initRet' = [initRet EXCEPT ![c] = [status |-> "threw"]]
        /\ UNCHANGED <<cache, history, svcPc, svcCall, svcLocal, svcResult, svcCalls>>

\* Faulty variant: the client is fetched outside the try blocks, so a missing
\* client rejects the call
SearchCallUnguarded ==
    /\ svcPc \in {"idle", "done"}
    /\ svcCalls < MaxCalls
    /\ \E query \in SvcQueries, pl \in PageLimits :
           /\ svcCall' = [op |-> "search", query |-> query, page |-> pl[1], limit |-> pl[2]]
           /\ IF getRedisClientThrows
              THEN /\ svcLocal' = [op |-> "search", noClient |-> TRUE, getThrew |-> FALSE,
                                   response |-> <<>>]
                   /\ svcResult' = [status |-> "rejected", op |-> "search", hit |-> FALSE,
                                    setThrew |-> FALSE, value |-> <<>>]
                   /\ svcPc' = "done"
              ELSE /\ svcLocal' = [op |-> "search", noClient |-> FALSE, getThrew |-> FALSE,
                                   response |-> <<>>]
                   /\ svcResult' = [status |-> "pending"]
                   /\ svcPc' = "get"
    /\ svcCalls' = svcCalls + 1
    /\ UNCHANGED <<client, cache, history>>

\* search(query, page, limit) up to its first await. With no client both
\* getRedisClient() calls throw into their catch blocks and the call runs to
\* its return without awaiting; otherwise client.get(cacheKey) is awaited.
SearchCall ==
    /\ svcPc \in {"idle", "done"}
    /\ svcCalls < MaxCalls
    /\ \E query \in SvcQueries, pl \in PageLimits :
           /\ svcCall' = [op |-> "search", query |-> query, page |-> pl[1], limit |-> pl[2]]
           /\ IF getRedisClientThrows
              THEN LET response == SearchResponse(query, pl[1], pl[2])
                   IN  /\ svcLocal' = [op |-> "search", noClient |-> TRUE, getThrew |-> FALSE,
                                       response |-> <<response>>]
                       /\ svcResult' = [status |-> "resolved", op |-> "search", hit |-> FALSE,
                                        setThrew |-> FALSE, value |-> <<response>>]
                       /\ svcPc' = "done"
              ELSE /\ svcLocal' = [op |-> "search", noClient |-> FALSE, getThrew |-> FALSE,
                                   response |-> <<>>]
                   /\ svcResult' = [status |-> "pending"]
                   /\ svcPc' = "get"
    /\ svcCalls' = svcCalls + 1
    /\ UNCHANGED <<client, cache, history>>

\* Faulty variant: the cached entry is never used, every call goes to the index
SearchGetSettlesIgnoringCache ==
    /\ svcPc = "get"
    /\ \E threw \in BOOLEAN :
           /\ svcLocal' = [svcLocal EXCEPT
                              !.getThrew = threw,
                              !.response = <<SearchResponse(svcCall.query,
                                                            svcCall.page,
                                                            svcCall.limit)>>]
           /\ svcPc' = "set"
           /\ UNCHANGED svcResult
    /\ UNCHANGED <<client, cache, history, svcCall, svcCalls>>

\* await client.get(cacheKey) settles: a hit returns JSON.parse(cached); a miss
\* or a throw goes on to the index, builds the response and awaits client.set
SearchGetSettles ==
    /\ svcPc = "get"
    /\ \E threw \in BOOLEAN :
           LET cacheKey == CacheKey(svcCall.query, svcCall.page, svcCall.limit)
           IN  IF ~threw /\ cacheKey \in DOMAIN cache
               THEN /\ svcResult' = [status |-> "resolved", op |-> "search", hit |-> TRUE,
                                     setThrew |-> FALSE,
                                     value |-> <<JSONParse(cache[cacheKey].value)>>]
                    /\ svcPc' = "done"
                    /\ UNCHANGED svcLocal
               ELSE /\ svcLocal' = [svcLocal EXCEPT
                                       !.getThrew = threw,
                                       !.response = <<SearchResponse(svcCall.query,
                                                                     svcCall.page,
                                                                     svcCall.limit)>>]
                    /\ svcPc' = "set"
                    /\ UNCHANGED svcResult
    /\ UNCHANGED <<client, cache, history, svcCall, svcCalls>>

\* await client.set(cacheKey, JSON.stringify(response), { EX: 300 }) settles,
\* stored or thrown, and the response is returned
SearchSetSettles ==
    /\ svcPc = "set"
    /\ \E threw \in BOOLEAN :
           LET cacheKey == CacheKey(svcCall.query, svcCall.page, svcCall.limit)
               response == svcLocal.response[1]
               entry    == [value |-> JSONStringify(response), EX |-> CacheTtlSeconds]
           IN  /\ cache' = IF threw THEN cache
                           ELSE [k \in DOMAIN cache \cup {cacheKey} |->
                                    IF k = cacheKey THEN entry ELSE cache[k]]
               /\ svcResult' = [status |-> "resolved", op |-> "search", hit |-> FALSE,
                                setThrew |-> threw, value |-> <<response>>]
    /\ svcPc' = "done"
    /\ UNCHANGED <<client, history, svcCall, svcLocal, svcCalls>>

\* The store drops an entry set with { EX: 300 } once its 300 seconds are over
CacheEntryExpires ==
    /\ \E cacheKey \in DOMAIN cache :
           cache' = [k \in DOMAIN cache \ {cacheKey} |-> cache[k]]
    /\ UNCHANGED <<client, history, svcPc, svcCall, svcLocal, svcResult, svcCalls>>

-----------------------------------------------------------------------------
(* services/searchHistory.ts and SearchService.autocomplete *)

MAX_STORED == 10000

HistoryRangeStop == 1000

PopularityWeight == 10

\* String.prototype.trim
RECURSIVE TrimStart(_)
TrimStart(s) == IF s # <<>> /\ IsSpace(Head(s)) THEN TrimStart(Tail(s)) ELSE s

RECURSIVE TrimEnd(_)
TrimEnd(s) ==
    IF s # <<>> /\ IsSpace(s[Len(s)]) THEN TrimEnd(SubSeq(s, 1, Len(s) - 1)) ELSE s

Trim(s) == TrimEnd(TrimStart(s))

\* The order of the characters the history's members are spelled with
CharOrder == <<" ">> \o LowerLetters

CharCode(c) == CHOOSE i \in 1..Len(CharOrder) : CharOrder[i] = c

\* a < b in the byte order Redis breaks equal scores with
RECURSIVE LexLess(_, _)
LexLess(a, b) ==
    IF b = <<>> THEN FALSE
    ELSE IF a = <<>> THEN TRUE
    ELSE IF Head(a) = Head(b) THEN LexLess(Tail(a), Tail(b))
    ELSE CharCode(Head(a)) < CharCode(Head(b))

\* The rank of a member from the top: by score, then by member, both descending
RevRank(set, member) ==
    Cardinality({other \in DOMAIN set :
                    \/ set[other] > set[member]
                    \/ (set[other] = set[member] /\ LexLess(member, other))})

\* zRangeWithScores(key, 0, stop, { REV: true })
zRangeWithScoresRev(set, stop) ==
    LET n == Min2(Cardinality(DOMAIN set), stop + 1)
    IN  [i \in 1..n |->
            LET member == CHOOSE x \in DOMAIN set : RevRank(set, x) = i - 1
            IN  [value |-> member, score |-> set[member]]]

\* zIncrBy(key, 1, member)
zIncrBy(set, member) ==
    [x \in DOMAIN set \cup {member} |->
        IF x = member THEN (IF member \in DOMAIN set THEN set[member] + 1 ELSE 1)
        ELSE set[x]]

\* zRemRangeByRank(key, 0, -MAX_STORED - 1): all but the MAX_STORED highest go
zRemRangeByRank(set) ==
    [x \in {y \in DOMAIN set : RevRank(set, y) < MAX_STORED} |-> set[x]]

\* value.startsWith(prefix)
StartsWith(value, prefix) ==
    Len(prefix) <= Len(value) /\ SubSeq(value, 1, Len(prefix)) = prefix

\* The body of getPopular after the reply of zRangeWithScores
PopularOf(results, prefix, limit) ==
    LET normalizedPrefix == ToLowerCase(prefix)
        matching == SelectSeq(results, LAMBDA result : StartsWith(result.value, normalizedPrefix))
        sliced   == Slice(matching, 0, limit)
    IN  [i \in 1..Len(sliced) |-> [term |-> sliced[i].value, count |-> sliced[i].score]]

\* scored.findIndex((s) => s.term === term), from 1; 0 for -1
FindIndex(scoredItems, term) ==
    IF \E i \in 1..Len(scoredItems) : scoredItems[i].term = term
    THEN CHOOSE i \in 1..Len(scoredItems) :
             /\ scoredItems[i].term = term
             /\ \A j \in 1..(i - 1) : scoredItems[j].term # term
    ELSE 0

\* Faulty variant: a popular term is always pushed, found in scored or not
RECURSIVE MergePopularAppending(_, _)
MergePopularAppending(scoredItems, popularSearches) ==
    IF popularSearches = <<>> THEN scoredItems
    ELSE LET popular == Head(popularSearches)
         IN  MergePopularAppending(Append(scoredItems,
                                          [term  |-> popular.term,
                                           score |-> popular.count * PopularityWeight]),
                                   Tail(popularSearches))

\* popularSearches.forEach(...) on the scored array
RECURSIVE MergePopular(_, _)
MergePopular(scoredItems, popularSearches) ==
    IF popularSearches = <<>> THEN scoredItems
    ELSE LET popular == Head(popularSearches)
             found   == FindIndex(scoredItems, popular.term)
             merged  == IF found > 0
                        THEN [scoredItems EXCEPT ![found].score =
                                 @ + popular.count * PopularityWeight]
                        ELSE Append(scoredItems,
                                    [term  |-> popular.term,
                                     score |-> popular.count * PopularityWeight])
         IN  MergePopular(merged, Tail(popularSearches))

\* autocomplete after its await: merge, sort by score, the first limit terms
AutocompleteResult(trieSuggestions, popularSearches, limit) ==
    LET base   == [i \in 1..Len(trieSuggestions) |->
                      [term |-> trieSuggestions[i], score |-> 0]]
        sorted == SortByScoreDesc(MergePopular(base, popularSearches))
        top    == Slice(sorted, 0, limit)
    IN  [i \in 1..Len(top) |-> top[i].term]

-----------------------------------------------------------------------------
(* The calls made on the history service and on autocomplete *)

MaxRecords == 2

MaxAutoLimit == 2

\* "ab", "Ac " (normalized to "ac") and "a" (too short to be recorded)
RecordQueries == { <<"a","b">>, <<"A","c"," ">>, <<"a">> }

SvcWords == { <<"a","b">>, <<"a","c">> }

AutoPrefixes == { <<"a">>, <<"a","b">> }

\* The sum of the scores of the history: how many queries were recorded
RECURSIVE SumScores(_)
SumScores(set) ==
    IF DOMAIN set = {} THEN 0
    ELSE LET x == CHOOSE y \in DOMAIN set : TRUE
         IN  set[x] + SumScores([z \in DOMAIN set \ {x} |-> set[z]])

InsertSvcWord ==
    \E word \in SvcWords :
        /\ root' = InsertAt(root, word)
        /\ inserted' = inserted \cup {word}
        /\ tret' = [op |-> "insert", word |-> word]

\* SearchHistoryService.record: ignored when short, failures are logged only
Record ==
    /\ SumScores(history) < MaxRecords
    /\ \E query \in RecordQueries, threw \in BOOLEAN :
           LET normalized == Trim(ToLowerCase(query))
           IN  history' = IF Len(normalized) < 2 \/ getRedisClientThrows \/ threw
                          THEN history
                          ELSE zRemRangeByRank(zIncrBy(history, normalized))
    /\ UNCHANGED <<client, cache, svcPc, svcCall, svcLocal, svcResult, svcCalls>>

-----------------------------------------------------------------------------
(* routes/search.routes.ts: the GET /apex/search handler *)

\* `if (!query) return sendError(res, "Invalid query.", 400)`
RouteInvalidQuery ==
    /\ routePc \in {"idle", "sent"}
    /\ svcPc \in {"idle", "done"}
    /\ routeOut' = [status |-> 400]
    /\ routePc' = "sent"

\* The handler up to `await searchService.search(query, pageNum, limitNum)`
RouteCall ==
    /\ routePc \in {"idle", "sent"}
    /\ SearchCall
    /\ routeOut' = [status |-> "pending"]
    /\ routePc' = "search"

\* search resolved: with no result on the page the handler asks
\* findClosestTerm for a correction and responds; otherwise it goes on to
\* `await searchHistoryService.record(query)`
RouteAfterSearch ==
    /\ routePc = "search"
    /\ svcPc = "done"
    /\ svcResult.status = "resolved"
    /\ LET response == svcResult.value[1]
       IN  IF Len(response.results) = 0
           THEN /\ \E terms \in getSortedTerms(index) :
                       routeOut' = [status          |-> 200,
                                    total           |-> response.pagination.total,
                                    results         |-> Len(response.results),
                                    askedCorrection |-> TRUE,
                                    correction      |-> findClosestTerm(index, terms,
                                                                        svcCall.query),
                                    recordCalled    |-> FALSE]
                /\ routePc' = "sent"
           ELSE /\ routeOut' = [status          |-> "pending",
                                total           |-> response.pagination.total,
                                results         |-> Len(response.results),
                                askedCorrection |-> FALSE,
                                correction      |-> <<>>,
                                recordCalled    |-> FALSE]
                /\ routePc' = "record"

\* record(query) settles, stored or not (it catches what the store throws),
\* and the handler responds
RouteRecordSettles ==
    /\ routePc = "record"
    /\ \E threw \in BOOLEAN :
           LET normalized == Trim(ToLowerCase(svcCall.query))
           IN  history' = IF Len(normalized) < 2 \/ getRedisClientThrows \/ threw
                          THEN history
                          ELSE zRemRangeByRank(zIncrBy(history, normalized))
    /\ routeOut' = [routeOut EXCEPT !.status = 200, !.recordCalled = TRUE]
    /\ routePc' = "sent"
    /\ UNCHANGED <<client, cache, svcPc, svcCall, svcLocal, svcResult, svcCalls>>

\* autocomplete(query, limit) up to its await: the trie is read, getPopular is
\* called; its getRedisClient() throwing rejects getPopular and, with no
\* catch around the await, autocomplete
AutocompleteCall ==
    /\ svcPc \in {"idle", "done"}
    /\ svcCalls < MaxCalls
    /\ \E query \in AutoPrefixes, limit \in 0..MaxAutoLimit :
           LET trieSuggestions == getSuggestions(root, query, limit * 2)
           IN  /\ svcCall' = [op |-> "autocomplete", query |-> query, limit |-> limit]
               /\ svcLocal' = [op |-> "autocomplete", trieSuggestions |-> trieSuggestions,
                               storeFailed |-> getRedisClientThrows]
               /\ IF getRedisClientThrows
                  THEN /\ svcResult' = [status |-> "rejected", op |-> "autocomplete",
                                        value |-> <<>>]
                       /\ svcPc' = "done"
                  ELSE /\ svcResult' = [status |-> "pending"]
                       /\ svcPc' = "popular"
    /\ svcCalls' = svcCalls + 1
    /\ UNCHANGED <<client, cache, history>>

\* await searchHistoryService.getPopular(...) settles: zRangeWithScores threw
\* and the call rejects, or it replied and the merged terms are returned
AutocompleteSettles ==
    /\ svcPc = "popular"
    /\ \E threw \in BOOLEAN :
           IF threw
           THEN /\ svcLocal' = [svcLocal EXCEPT !.storeFailed = TRUE]
                /\ svcResult' = [status |-> "rejected", op |-> "autocomplete", value |-> <<>>]
           ELSE LET results == zRangeWithScoresRev(history, HistoryRangeStop)
                    popularSearches == PopularOf(results, svcCall.query, svcCall.limit * 2)
                IN  /\ svcLocal' = svcLocal
                    /\ svcResult' = [status |-> "resolved", op |-> "autocomplete",
                                     value |-> AutocompleteResult(svcLocal.trieSuggestions,
                                                                  popularSearches,
                                                                  svcCall.limit)]
    /\ svcPc' = "done"
    /\ UNCHANGED <<client, cache, history, svcCall, svcCalls>>

-----------------------------------------------------------------------------
(* Specifications: one per component, the other components left as built *)

Init == IdxInit /\ TrieInit /\ LevIdle /\ TopKIdle /\ TokIdle /\ SvcIdle
            /\ HeapIdle /\ RouteIdle /\ RedisIdle

Next ==
    \/ AddDocument /\ UNCHANGED <<trieVars, levVars, topKVars, tokVars, svcVars, heapVars, routeVars, initVars>>
    \/ Search /\ UNCHANGED <<trieVars, levVars, topKVars, tokVars, svcVars, heapVars, routeVars, initVars>>
    \/ GetDocument /\ UNCHANGED <<trieVars, levVars, topKVars, tokVars, svcVars, heapVars, routeVars, initVars>>

Spec == Init /\ [][Next]_vars

NextTrie ==
    \/ Insert /\ UNCHANGED <<idxVars, levVars, topKVars, tokVars, svcVars, heapVars, routeVars, initVars>>
    \/ GetSuggestions /\ UNCHANGED <<idxVars, levVars, topKVars, tokVars, svcVars, heapVars, routeVars, initVars>>
    \/ BuildFromDocuments /\ UNCHANGED <<idxVars, levVars, topKVars, tokVars, svcVars, heapVars, routeVars, initVars>>

SpecTrie == Init /\ [][NextTrie]_vars

InitLev == IdxInit /\ TrieInit /\ LevInit /\ TopKIdle /\ TokIdle /\ SvcIdle
            /\ HeapIdle /\ RouteIdle /\ RedisIdle

NextLev == LevenshteinDistance /\ UNCHANGED <<idxVars, trieVars, topKVars, tokVars, svcVars, heapVars, routeVars, initVars>>

SpecLev == InitLev /\ [][NextLev]_vars

NextFuzzy ==
    \/ AddFuzzyDocument /\ UNCHANGED <<trieVars, levVars, topKVars, tokVars, svcVars, heapVars, routeVars, initVars>>
    \/ FindClosestTerm /\ UNCHANGED <<trieVars, levVars, topKVars, tokVars, svcVars, heapVars, routeVars, initVars>>

SpecFuzzy == Init /\ [][NextFuzzy]_vars

InitTopK == IdxInit /\ TrieInit /\ LevIdle /\ TopKInit /\ TokIdle /\ SvcIdle
            /\ HeapIdle /\ RouteIdle /\ RedisIdle

NextTopK ==
    \/ TopKStep /\ UNCHANGED <<idxVars, trieVars, levVars, tokVars, svcVars, heapVars, routeVars, initVars>>
    \/ TopKLoopEnd /\ UNCHANGED <<idxVars, trieVars, levVars, tokVars, svcVars, heapVars, routeVars, initVars>>
    \/ TopKDrain /\ UNCHANGED <<idxVars, trieVars, levVars, tokVars, svcVars, heapVars, routeVars, initVars>>
    \/ TopKReturn /\ UNCHANGED <<idxVars, trieVars, levVars, tokVars, svcVars, heapVars, routeVars, initVars>>
    \/ TopKBubbleDown /\ UNCHANGED <<idxVars, trieVars, levVars, tokVars, svcVars, heapVars, routeVars, initVars>>

SpecTopK == InitTopK /\ [][NextTopK]_vars

InitTok == IdxInit /\ TrieInit /\ LevIdle /\ TopKIdle /\ TokInit /\ SvcIdle
            /\ HeapIdle /\ RouteIdle /\ RedisIdle

NextTok ==
    \/ Tokenizer /\ UNCHANGED <<idxVars, trieVars, levVars, topKVars, svcVars, heapVars, routeVars, initVars>>
    \/ ExtractPhrases /\ UNCHANGED <<idxVars, trieVars, levVars, topKVars, svcVars, heapVars, routeVars, initVars>>

SpecTok == InitTok /\ [][NextTok]_vars

NextHeapPush ==
    Push /\ UNCHANGED <<idxVars, trieVars, levVars, topKVars, tokVars, svcVars, routeVars, initVars>>

SpecHeapPush == Init /\ [][NextHeapPush]_vars

NextHeap ==
    \/ Push /\ UNCHANGED <<idxVars, trieVars, levVars, topKVars, tokVars, svcVars, routeVars, initVars>>
    \/ Pop /\ UNCHANGED <<idxVars, trieVars, levVars, topKVars, tokVars, svcVars, routeVars, initVars>>
    \/ BubbleDownSpins
           /\ UNCHANGED <<idxVars, trieVars, levVars, topKVars, tokVars, svcVars, routeVars, initVars>>

SpecHeap == Init /\ [][NextHeap]_vars

NextRoute ==
    \/ AddSvcDocument
           /\ UNCHANGED <<trieVars, levVars, topKVars, tokVars, svcVars, heapVars, routeVars, initVars>>
    \/ InitializeRedisClient
           /\ UNCHANGED <<idxVars, trieVars, levVars, topKVars, tokVars, heapVars, routeVars, initVars>>
    \/ RouteInvalidQuery
           /\ UNCHANGED <<idxVars, trieVars, levVars, topKVars, tokVars, svcVars, heapVars, initVars>>
    \/ RouteCall
           /\ UNCHANGED <<idxVars, trieVars, levVars, topKVars, tokVars, heapVars, initVars>>
    \/ SearchGetSettles
           /\ UNCHANGED <<idxVars, trieVars, levVars, topKVars, tokVars, heapVars, routeVars, initVars>>
    \/ SearchSetSettles
           /\ UNCHANGED <<idxVars, trieVars, levVars, topKVars, tokVars, heapVars, routeVars, initVars>>
    \/ RouteAfterSearch
           /\ UNCHANGED <<idxVars, trieVars, levVars, topKVars, tokVars, svcVars, heapVars, initVars>>
    \/ RouteRecordSettles
           /\ UNCHANGED <<idxVars, trieVars, levVars, topKVars, tokVars, heapVars, initVars>>

SpecRoute == Init /\ [][NextRoute]_vars

NextRedisInit ==
    \/ InitializeCall
           /\ UNCHANGED <<idxVars, trieVars, levVars, topKVars, tokVars, heapVars, routeVars>>
    \/ InitializeConnectSettles
           /\ UNCHANGED <<idxVars, trieVars, levVars, topKVars, tokVars, heapVars, routeVars>>
    \/ InitializeQuitSettles
           /\ UNCHANGED <<idxVars, trieVars, levVars, topKVars, tokVars, heapVars, routeVars>>

SpecRedisInit == Init /\ [][NextRedisInit]_vars

NextSearchSvc ==
    \/ AddSvcDocument /\ UNCHANGED <<trieVars, levVars, topKVars, tokVars, svcVars, heapVars, routeVars, initVars>>
    \/ InitializeRedisClient /\ UNCHANGED <<idxVars, trieVars, levVars, topKVars, tokVars, heapVars, routeVars, initVars>>
    \/ SearchCall /\ UNCHANGED <<idxVars, trieVars, levVars, topKVars, tokVars, heapVars, routeVars, initVars>>
    \/ SearchGetSettles /\ UNCHANGED <<idxVars, trieVars, levVars, topKVars, tokVars, heapVars, routeVars, initVars>>
    \/ SearchSetSettles /\ UNCHANGED <<idxVars, trieVars, levVars, topKVars, tokVars, heapVars, routeVars, initVars>>
    \/ CacheEntryExpires /\ UNCHANGED <<idxVars, trieVars, levVars, topKVars, tokVars, heapVars, routeVars, initVars>>

SpecSearchSvc == Init /\ [][NextSearchSvc]_vars

NextAutoSvc ==
    \/ InsertSvcWord /\ UNCHANGED <<idxVars, levVars, topKVars, tokVars, svcVars, heapVars, routeVars, initVars>>
    \/ InitializeRedisClient /\ UNCHANGED <<idxVars, trieVars, levVars, topKVars, tokVars, heapVars, routeVars, initVars>>
    \/ Record /\ UNCHANGED <<idxVars, trieVars, levVars, topKVars, tokVars, heapVars, routeVars, initVars>>
    \/ AutocompleteCall /\ UNCHANGED <<idxVars, trieVars, levVars, topKVars, tokVars, heapVars, routeVars, initVars>>
    \/ AutocompleteSettles /\ UNCHANGED <<idxVars, trieVars, levVars, topKVars, tokVars, heapVars, routeVars, initVars>>

SpecAutoSvc == Init /\ [][NextAutoSvc]_vars

-----------------------------------------------------------------------------
(* Claims about the inverted index *)

TermAB == <<"a","b">>

\* Does the index hold a term frequency of term t for document d?
StoredTf(t, d) == t \in DOMAIN index /\ MapHas(index[t].tf, d)

RECURSIVE SumStoredTf(_, _)
SumStoredTf(terms, d) ==
    IF terms = {} THEN 0
    ELSE LET t == CHOOSE x \in terms : TRUE
         IN  (IF StoredTf(t, d) THEN MapGet(index[t].tf, d) ELSE 0)
             + SumStoredTf(terms \ {t}, d)

Distinct(s) == \A i, j \in 1..Len(s) : i # j => s[i] # s[j]

Occurrences(t, tokens) == Cardinality({i \in 1..Len(tokens) : tokens[i] = t})

\* C1: after any sequence of addDocument calls, reused ids included, every
\* posting entry has df = |docIds| and the keys of its tf map are among docIds.
C1_DfEqualsDocIds ==
    \A t \in DOMAIN index :
        /\ index[t].df = Cardinality(index[t].docIds)
        /\ MapKeys(index[t].tf) \subseteq index[t].docIds

C1_Witness ==
    /\ totalDocs > Cardinality(DOMAIN documents)
    /\ \E t \in DOMAIN index : index[t].df = 2

\* C2: for a query whose filtered tokens are pairwise distinct, search returns
\* exactly one result per document with a stored term frequency for some query
\* token, scored by the sum of those term frequencies, in non-increasing order.
C2_SearchScoresAndOrder ==
    (ret.op = "search" /\ Distinct(QueryTokens(ret.query))) =>
        LET toks     == Range(QueryTokens(ret.query))
            r        == ret.results
            matching == {d \in UNION {MapKeys(index[t].tf) : t \in DOMAIN index} :
                            \E t \in toks : StoredTf(t, d)}
        IN  /\ {r[i].documentId : i \in 1..Len(r)} = matching
            /\ Len(r) = Cardinality(matching)
            /\ \A i \in 1..Len(r) : r[i].score = SumStoredTf(toks, r[i].documentId)
            /\ \A i \in 1..(Len(r) - 1) : r[i].score >= r[i + 1].score

C2_Witness ==
    /\ ret.op = "search"
    /\ Len(QueryTokens(ret.query)) = 2
    /\ Distinct(QueryTokens(ret.query))
    /\ Len(ret.results) = 2
    /\ ret.results[1].score > ret.results[2].score
    /\ \E i \in 1..2 : \A t \in Range(QueryTokens(ret.query)) :
           StoredTf(t, ret.results[i].documentId)

\* The text the claim names: title + " " + content when a title is present
CombinedText(doc) ==
    IF doc.title = NoTitle THEN doc.content ELSE doc.title \o <<" ">> \o doc.content

\* C3: after addDocument(doc) for a new id, tf[t][doc.id] exists exactly when t
\* occurs in the filtered tokens of the combined text and equals the number of
\* its occurrences there, and search for t scores the document with that number.
C3_TfIsOccurrenceCount ==
    (ret.op = "addDocument" /\ ret.fresh) =>
        LET doc    == ret.doc
            tokens == removeStopWords(tokenizer(CombinedText(doc)))
        IN  \A t \in DOMAIN index \cup Range(tokens) :
                /\ StoredTf(t, doc.id) <=> Occurrences(t, tokens) > 0
                /\ StoredTf(t, doc.id) =>
                      /\ MapGet(index[t].tf, doc.id) = Occurrences(t, tokens)
                      /\ \E i \in 1..Len(search(index, t)) :
                            /\ search(index, t)[i].documentId = doc.id
                            /\ search(index, t)[i].score = Occurrences(t, tokens)

C3_Witness ==
    /\ ret.op = "addDocument"
    /\ ret.fresh
    /\ ret.doc.title # NoTitle
    /\ Occurrences(TermAB, tokenizer(ret.doc.title)) = 1
    /\ Occurrences(TermAB, tokenizer(ret.doc.content)) = 1
    /\ StoredTf(TermAB, ret.doc.id)
    /\ MapGet(index[TermAB].tf, ret.doc.id) = 2

\* C4: search returns the empty list when the query has no token left after
\* tokenization and stop-word removal and when no query token is a key of the
\* index, getDocument returns undefined for an id never added, and neither
\* call changes the index.
C4_SearchFailsSoft ==
    /\ [](/\ (ret.op = "search" /\ \A t \in Range(QueryTokens(ret.query)) : t \notin DOMAIN index)
                => ret.results = <<>>
          /\ (ret.op = "getDocument" /\ ret.id \notin DOMAIN documents)
                => ret.doc = Undefined)
    /\ [][ret'.op \in {"search", "getDocument"}
            => UNCHANGED <<index, documents, totalDocs>>]_vars

C4_Witness ==
    /\ ret.op = "search"
    /\ QueryTokens(ret.query) # <<>>
    /\ index # EmptyIndex
    /\ Range(QueryTokens(ret.query)) \cap DOMAIN index = {}
    /\ ret.results = <<>>

\* The tokens joined by single spaces: a text that tokenizes to them
RECURSIVE JoinWithSpaces(_)
JoinWithSpaces(tokens) ==
    IF tokens = <<>> THEN <<>>
    ELSE IF Len(tokens) = 1 THEN Head(tokens)
         ELSE Head(tokens) \o <<" ">> \o JoinWithSpaces(Tail(tokens))

\* The query with its stop-word tokens deleted
WithoutStopWordTokens(query) ==
    LET tokens == tokenizer(query)
        kept   == {i \in 1..Len(tokens) : tokens[i] \notin STOP_WORDS}
    IN  JoinWithSpaces([n \in 1..Cardinality(kept) |-> tokens[NthSmallest(kept, n)]])

\* C12: stop words are removed the same way when indexing and when querying:
\* no key of the index is a stop word, and every query gives the result of
\* the query without its stop-word tokens.
C12_StopWordsSymmetric ==
    /\ \A t \in DOMAIN index : t \notin STOP_WORDS
    /\ (ret.op = "search" =>
            ret.results = search(index, WithoutStopWordTokens(ret.query)))

\* "be ab AB!" is stored without a key "be", and the query "be ab" finds it
\* through "ab" alone
C12_Witness ==
    /\ ret.op = "search"
    /\ ret.query = <<"b","e"," ","a","b">>
    /\ \E d \in DOMAIN documents :
           /\ documents[d].content = <<"b","e"," ","a","b"," ","A","B","!">>
           /\ \E i \in 1..Len(ret.results) : ret.results[i].documentId = d
    /\ <<"b","e">> \notin DOMAIN index

\* The ids a search returns
FoundIds(results) == {results[i].documentId : i \in 1..Len(results)}

\* C13: when addDocument is called with an id already in use and another
\* document, the stored document becomes the new one, and every term of the
\* old document that the new one does not have keeps the id in its docIds
\* and in its tf with the old count, so a search for that term still returns
\* the id.
C13_ReusedIdKeepsOldPostings ==
    [][ (ret'.op = "addDocument" /\ ~ret'.fresh /\ ret'.doc # documents[ret'.doc.id]) =>
            LET id        == ret'.doc.id
                oldTokens == DocTokens(documents[id])
                newTokens == DocTokens(ret'.doc)
            IN  /\ documents'[id] = ret'.doc
                /\ \A t \in Range(oldTokens) \ Range(newTokens) :
                       /\ t \in DOMAIN index'
                       /\ id \in index'[t].docIds
                       /\ MapHas(index'[t].tf, id)
                       /\ MapGet(index'[t].tf, id) = Occurrences(t, oldTokens)
                       /\ id \in FoundIds(search(index', t)) ]_vars

\* Id reused: "ab ba" replaced by "b'a a"; "ab" still lists the id, once
C13_Witness ==
    /\ ret.op = "addDocument"
    /\ ~ret.fresh
    /\ ret.doc.title = NoTitle
    /\ ret.doc.content = <<"b","'","a"," ","a">>
    /\ getDocument(ret.doc.id) = ret.doc
    /\ TermAB \in DOMAIN index
    /\ ret.doc.id \in index[TermAB].docIds
    /\ MapHas(index[TermAB].tf, ret.doc.id)
    /\ ret.doc.id \in FoundIds(search(index, TermAB))
    /\ TermAB \notin Range(DocTokens(ret.doc))

\* C14: the index only grows: no call removes a term from the index, an id
\* from a term's docIds or an id from the stored documents, and search and
\* getDocument leave all three as they are.
C14_IndexOnlyGrows ==
    [][ /\ DOMAIN index \subseteq DOMAIN index'
        /\ \A t \in DOMAIN index : index[t].docIds \subseteq index'[t].docIds
        /\ DOMAIN documents \subseteq DOMAIN documents'
        /\ (ret'.op \in {"search", "getDocument"} =>
               /\ DOMAIN index' = DOMAIN index
               /\ \A t \in DOMAIN index : index'[t].docIds = index[t].docIds
               /\ DOMAIN documents' = DOMAIN documents) ]_vars

\* Two documents share "ab", a third add has reused an id, and a search
\* that found both ids has run on that index
C14_Witness ==
    /\ ret.op = "search"
    /\ totalDocs = 3
    /\ DOMAIN documents = DocIds
    /\ TermAB \in DOMAIN index
    /\ index[TermAB].docIds = DocIds
    /\ FoundIds(ret.results) = DocIds
    /\ \E d \in DocIds : TermAB \notin Range(DocTokens(documents[d]))

-----------------------------------------------------------------------------
(* Claims about the trie *)

IsPrefix(p, w) == Len(p) <= Len(w) /\ SubSeq(w, 1, Len(p)) = p

StartingWith(p) == {w \in inserted : IsPrefix(p, w)}

\* The words spelled by the paths from node to its terminal descendants
RECURSIVE TerminalWords(_, _)
TerminalWords(node, path) ==
    (IF node.isEndOfWord THEN {path} ELSE {})
    \cup UNION { TerminalWords(node.children[i].val, Append(path, node.children[i].key)) :
                 i \in 1..Len(node.children) }

\* C6: getSuggestions(p, limit) contains every inserted word w that starts
\* with p whenever limit is at least the number of inserted words starting with p.
C6_SuggestionsRoundTrip ==
    tret.op = "getSuggestions" =>
        \A w \in StartingWith(tret.prefix) :
            tret.limit >= Cardinality(StartingWith(tret.prefix))
                => w \in Range(tret.results)

C6_Witness ==
    /\ tret.op = "getSuggestions"
    /\ tret.prefix = <<"a">>
    /\ StartingWith(tret.prefix) = { <<"a","b">>, <<"a","b","c">>, <<"a","c">> }
    /\ tret.limit = Cardinality(StartingWith(tret.prefix))
    /\ Range(tret.results) = StartingWith(tret.prefix)

\* C7: getSuggestions(p, limit) returns at most limit words, without
\* duplicates, each inserted and starting with p, the empty list when no
\* inserted word starts with p, and it leaves the trie as it was.
C7_SuggestionsBounded ==
    /\ [](tret.op = "getSuggestions" =>
            /\ Len(tret.results) <= tret.limit
            /\ Distinct(tret.results)
            /\ Range(tret.results) \subseteq StartingWith(tret.prefix)
            /\ StartingWith(tret.prefix) = {} => tret.results = <<>>)
    /\ [][tret'.op = "getSuggestions" => UNCHANGED <<root, inserted>>]_vars

C7_Witness ==
    /\ tret.op = "getSuggestions"
    /\ tret.limit = 2
    /\ Cardinality(StartingWith(tret.prefix)) = 3
    /\ Len(tret.results) = 2

\* C8: the words spelled by root-to-terminal paths are exactly the inserted
\* words; a word and its proper extension are both present.
C8_TerminalsAreInsertedWords ==
    TerminalWords(root, <<>>) = inserted

C8_Witness ==
    /\ tret.op = "insert"
    /\ tret.word = <<"a","b">>
    /\ <<"a","b","c">> \in inserted
    /\ { <<"a","b">>, <<"a","b","c">> } \subseteq TerminalWords(root, <<>>)
    /\ <<"a">> \notin TerminalWords(root, <<>>)

\* Every term and phrase of the documents, in the order of the build, repeats kept
RECURSIVE AllTermsAndPhrases(_)
AllTermsAndPhrases(docs) ==
    IF docs = <<>> THEN <<>>
    ELSE tokenizer(FullText(Head(docs))) \o extractPhrases(FullText(Head(docs)))
         \o AllTermsAndPhrases(Tail(docs))

\* The trie after inserting the words one after the other
RECURSIVE InsertAll(_, _)
InsertAll(node, words) ==
    IF words = <<>> THEN node ELSE InsertAll(InsertAt(node, Head(words)), Tail(words))

Prefixes_Of(w) == {SubSeq(w, 1, n) : n \in 0..Len(w)}

-----------------------------------------------------------------------------
(* Claims about the edit distance *)

\* The Levenshtein distance by its defining recurrence on the tails
RECURSIVE ClassicLev(_, _)
ClassicLev(a, b) ==
    IF a = <<>> THEN Len(b)
    ELSE IF b = <<>> THEN Len(a)
    ELSE Min3(ClassicLev(Tail(a), b) + 1,
              ClassicLev(a, Tail(b)) + 1,
              ClassicLev(Tail(a), Tail(b)) + (IF Head(a) = Head(b) THEN 0 ELSE 1))

\* C9: levenshteinDistance(a, b) is the classic edit distance for non-empty a
\* and b (3 for kitten/sitting) and 0 whenever a or b is empty.
C9_LevenshteinIsClassic ==
    levPc = "return" =>
        IF levA = <<>> \/ levB = <<>>
        THEN levResult = 0
        ELSE levResult = ClassicLev(levA, levB)

C9_Witness ==
    /\ levPc = "return"
    /\ levA = Kitten
    /\ levB = Sitting
    /\ levResult = 3

\* C17: levenshteinDistance is symmetric, distance(a, b) = distance(b, a) for
\* all strings, the empty ones included, and distance(s, s) = 0 for every
\* non-empty s.
C17_LevenshteinSymmetric ==
    levPc = "return" =>
        /\ levResult = levenshteinDistance(levB, levA)
        /\ (levA = levB /\ levA # <<>> => levResult = 0)

\* distance("abc", "bc") = 1 = distance("bc", "abc")
C17_Witness ==
    /\ levPc = "return"
    /\ levA = <<"a","b","c">>
    /\ levB = <<"b","c">>
    /\ levResult = 1
    /\ levenshteinDistance(levB, levA) = 1

-----------------------------------------------------------------------------
(* Claims about the fuzzy correction *)

SameFirstChar(query) == {t \in DOMAIN index : query # <<>> /\ t[1] = query[1]}

MinDistance(query) ==
    CHOOSE d \in {ClassicLev(query, t) : t \in SameFirstChar(query)} :
        \A t \in SameFirstChar(query) : d <= ClassicLev(query, t)

\* C10: findClosestTerm returns a term with the query's first character at
\* minimal edit distance and, among those, of greatest document frequency,
\* if that distance is at most 3; with no such term, or a greater distance, null.
C10_ClosestTerm ==
    ret.op = "findClosestTerm" =>
        LET q == ret.query
        IN  IF SameFirstChar(q) = {} \/ MinDistance(q) > 3
            THEN ret.result = <<>>
            ELSE /\ Len(ret.result) = 1
                 /\ ret.result[1] \in SameFirstChar(q)
                 /\ ClassicLev(q, ret.result[1]) = MinDistance(q)
                 /\ \A t \in SameFirstChar(q) :
                       ClassicLev(q, t) = MinDistance(q)
                           => index[ret.result[1]].df >= index[t].df

C10_Witness ==
    /\ ret.op = "findClosestTerm"
    /\ ret.query = <<"a","d">>
    /\ {TermAB, <<"a","c">>} \subseteq DOMAIN index
    /\ index[TermAB].df # index[<<"a","c">>].df
    /\ Len(ret.result) = 1

-----------------------------------------------------------------------------
(* Claims about the text processor *)

\* The text with every apostrophe deleted, then lowercased
RECURSIVE WithoutApostrophes(_)
WithoutApostrophes(s) ==
    IF s = <<>> THEN <<>>
    ELSE IF Head(s) = "'" THEN WithoutApostrophes(Tail(s))
         ELSE <<Head(s)>> \o WithoutApostrophes(Tail(s))

Prepared(s) == ToLowerCase(WithoutApostrophes(s))

IsLowerTokenChar(c) == c \in Range(LowerLetters) \cup Digits \cup {"+", "#", "."}

\* s[i..j] is a maximal run of token characters
IsMaximalRun(s, i, j) ==
    /\ i <= j
    /\ \A k \in i..j : IsLowerTokenChar(s[k])
    /\ (i = 1 \/ ~IsLowerTokenChar(s[i - 1]))
    /\ (j = Len(s) \/ ~IsLowerTokenChar(s[j + 1]))

\* Where the maximal runs of length >= 2 start
LongRunStarts(s) ==
    {i \in 1..Len(s) : \E j \in (i + 1)..Len(s) : IsMaximalRun(s, i, j)}

RunAt(s, i) == SubSeq(s, i, CHOOSE j \in i..Len(s) : IsMaximalRun(s, i, j))

WordStarts(s) == {i \in 1..Len(s) : ~IsSpace(s[i]) /\ (i = 1 \/ IsSpace(s[i - 1]))}

\* The word starting at i: up to the next white space or the end
WordAt(s, i) ==
    SubSeq(s, i, CHOOSE j \in i..Len(s) :
                     /\ \A k \in i..j : ~IsSpace(s[k])
                     /\ (j = Len(s) \/ IsSpace(s[j + 1])))

\* The n-th word of s
Word(s, n) == WordAt(s, NthSmallest(WordStarts(s), n))

\* A word without the characters outside [a-z0-9+#.]
RECURSIVE Strip(_)
Strip(w) ==
    IF w = <<>> THEN <<>>
    ELSE IF IsLowerTokenChar(Head(w)) THEN <<Head(w)>> \o Strip(Tail(w))
         ELSE Strip(Tail(w))

\* The phrases of the adjacent pairs n, n + 1 for n = from .. last, in order
RECURSIVE PairPhrases(_, _, _)
PairPhrases(s, from, last) ==
    IF from > last THEN <<>>
    ELSE LET w1 == Strip(Word(s, from))
             w2 == Strip(Word(s, from + 1))
         IN  (IF Len(w1) > 2 /\ Len(w2) > 2 THEN << w1 \o <<" ">> \o w2 >> ELSE <<>>)
             \o PairPhrases(s, from + 1, last)

\* C16: extractPhrases(text) returns, in order, for each adjacent pair of
\* white-space-delimited words of the lowercased text, the phrase "w1 w2" of
\* the two cleaned words exactly when both cleaned words are longer than 2,
\* and nothing else; there are at most (number of words - 1) phrases.
C16_PhrasesOfAdjacentPairs ==
    (tokPc = "return" /\ tokRet.op = "extractPhrases") =>
        LET s       == ToLowerCase(text)
            nWords  == Cardinality(WordStarts(s))
            phrases == tokRet.value
        IN  /\ phrases = PairPhrases(s, 1, nWords - 1)
            /\ Len(phrases) <= Len(SplitOnWhitespace(s, 1, <<>>)) - 1
            /\ (nWords > 0 => Len(phrases) <= nWords - 1)

\* "abc a!Bc \tab": the pair (abc, a!bc) gives "abc abc", the pair (a!bc, ab) nothing
C16_Witness ==
    /\ tokPc = "return"
    /\ tokRet.op = "extractPhrases"
    /\ text = <<"a","b","c"," ","a","!","B","c"," ","\t","a","b">>
    /\ tokRet.value = << <<"a","b","c"," ","a","b","c">> >>

-----------------------------------------------------------------------------
(* Claims about the top-K selection *)

ScoreOfTerm(term) == scored[CHOOSE i \in 1..Len(scored) : scored[i].term = term].score

\* Sorting all candidates by descending score and taking the first K
SortAndSlice(items, k) ==
    LET sorted == SortByScoreDesc(items)
    IN  [i \in 1..Min2(k, Len(items)) |-> sorted[i].score]

\* C5: the heap-based top-K selection returns the K highest-scoring
\* candidates in descending score order, min(K, number of candidates) of them:
\* the same scores as sorting all candidates and taking the first K.
C5_TopKIsSortAndSlice ==
    pc = "done" =>
        [i \in 1..Len(topKOutput) |-> ScoreOfTerm(topKOutput[i])] = SortAndSlice(scored, topKLimit)

\* C18: while the top-K loop runs, the heap never holds more than K items,
\* for every K >= 0; for K = 0 the heap stays empty and the output is empty.
C18_HeapWithinK ==
    /\ Len(topKHeap) <= topKLimit
    /\ (topKLimit = 0 => topKHeap = <<>> /\ topKOutput = <<>>)

-----------------------------------------------------------------------------
(* Claims about the search service *)

\* What a page of the ranked list is: the results first .. last of the
\* ranking with their documents, and the counts of the whole ranking
PageOfRanking(query, page, limit) ==
    LET ranked == search(index, query)
        total  == Len(ranked)
        first  == (page - 1) * limit + 1
        last   == Min2(page * limit, total)
        count  == IF last >= first THEN last - first + 1 ELSE 0
    IN  [results    |-> [k \in 1..count |->
                            LET r == ranked[first + k - 1]
                            IN  [documentId |-> r.documentId,
                                 score      |-> r.score,
                                 title      |-> documents[r.documentId].title,
                                 url        |-> Undefined,
                                 content    |-> documents[r.documentId].content]],
         pagination |-> [total      |-> total,
                         page       |-> page,
                         limit      |-> limit,
                         totalPages |-> CHOOSE n \in 0..total :
                                            /\ n * limit >= total
                                            /\ (n = 0 \/ (n - 1) * limit < total)]]

\* The cache failed during the finished search: no client, or get or set threw
CacheFailed ==
    /\ svcPc = "done"
    /\ svcCall.op = "search"
    /\ (svcLocal.noClient \/ svcLocal.getThrew \/ svcResult.setThrew)

\* C19: when the cache is unavailable or throws on get or on set (no client
\* included), search still resolves, with the response computed from the
\* index, the one an empty cache gives; it never rejects because of the cache.
C19_SearchFailsOpen ==
    /\ [](CacheFailed =>
             /\ svcResult.status = "resolved"
             /\ svcResult.value # <<>>
             /\ svcResult.value = svcLocal.response)
    /\ [](svcCall.op = "search" => svcResult.status # "rejected")
    /\ [][ (svcCall'.op = "search" /\ svcLocal'.response # <<>>
               /\ (svcLocal # svcLocal' \/ svcCall # svcCall')) =>
           svcLocal'.response =
               << PageOfRanking(svcCall'.query, svcCall'.page, svcCall'.limit) >> ]_vars

\* get and set both threw, and the search answered page 1 of size 1 of two hits
C19_Witness ==
    /\ CacheFailed
    /\ svcLocal.getThrew
    /\ svcResult.setThrew
    /\ svcResult.status = "resolved"
    /\ svcCall.page = 1
    /\ svcCall.limit = 1
    /\ Len(svcResult.value[1].results) = 1
    /\ svcResult.value[1].pagination.total = 2
    /\ cache = EmptyIndex

\* C20: when the history store is unavailable (getPopular throws or
\* rejects), autocomplete still resolves, with the suggestions of the trie
\* alone, and never rejects because of the store.
C20_AutocompleteFailsOpen ==
    (svcPc = "done" /\ svcCall.op = "autocomplete" /\ svcLocal.storeFailed) =>
        /\ svcResult.status = "resolved"
        /\ svcResult.value = Slice(svcLocal.trieSuggestions, 0, svcCall.limit)

\* The score the merge gives a term: 10 x its count in the history, 0 without
MergedScore(term) == IF term \in DOMAIN history THEN 10 * history[term] ELSE 0

\* The place of a term in a sequence of distinct terms
PlaceIn(terms, term) == CHOOSE i \in 1..Len(terms) : terms[i] = term

RankedRows(query) ==
    LET ranked == search(index, query)
    IN  [k \in 1..Len(ranked) |->
            [documentId |-> ranked[k].documentId,
             score      |-> ranked[k].score,
             title      |-> documents[ranked[k].documentId].title,
             url        |-> Undefined,
             content    |-> documents[ranked[k].documentId].content]]

\* The results of the pages from .. last of size limit, one after the other
RECURSIVE PagesConcatenated(_, _, _, _)
PagesConcatenated(query, from, last, limit) ==
    IF from > last THEN <<>>
    ELSE SearchResponse(query, from, limit).results
             \o PagesConcatenated(query, from + 1, last, limit)

\* What the pages of a query at a page size are to the ranked list
PagesCoverRanking(query, limit) ==
    LET rows       == RankedRows(query)
        total      == Len(rows)
        totalPages == SearchResponse(query, 1, limit).pagination.totalPages
    IN  /\ totalPages * limit >= total
        /\ (totalPages - 1) * limit < total
        /\ (total = 0 => totalPages = 0)
        /\ PagesConcatenated(query, 1, totalPages, limit) = rows
        /\ \A page \in 1..(totalPages + 2) :
               LET response == SearchResponse(query, page, limit)
               IN  /\ response.pagination.total = total
                   /\ response.pagination.totalPages = totalPages
                   /\ Len(response.results) <= limit
                   /\ \A k \in 1..Len(response.results) :
                          response.results[k] = rows[(page - 1) * limit + k]
                   /\ (page > totalPages => response.results = <<>>)
                   /\ (page < totalPages => Len(response.results) = limit)

\* C22: for limit >= 1 and page >= 1, on an unchanged index and without a cache
\* hit, search returns the slice [(page-1)*limit, page*limit) of the ranked
\* list, total = the number of ranked results and totalPages = ceil(total /
\* limit); pages 1..totalPages concatenated are the ranked list, nothing
\* repeated or left out, and every later page is empty.
C22_Pagination ==
    /\ [](svcPc = "done" /\ svcCall.op = "search" /\ ~svcResult.hit =>
             svcResult.value = svcLocal.response)
    /\ [][ (svcCall'.op = "search" /\ svcLocal'.response # <<>>
               /\ (svcLocal # svcLocal' \/ svcCall # svcCall')) =>
           LET response == svcLocal'.response[1]
               rows     == RankedRows(svcCall'.query)
               start    == (svcCall'.page - 1) * svcCall'.limit
           IN  /\ response.pagination.total = Len(rows)
               /\ response.pagination.page = svcCall'.page
               /\ response.pagination.limit = svcCall'.limit
               /\ Len(response.results) = Min2(svcCall'.limit, Len(rows) - Min2(start, Len(rows)))
               /\ \A k \in 1..Len(response.results) : response.results[k] = rows[start + k]
               /\ PagesCoverRanking(svcCall'.query, svcCall'.limit) ]_vars

\* A miss answered the second page of size 1 of a ranking of two results
C22_Witness ==
    /\ svcPc = "done"
    /\ svcCall.op = "search"
    /\ svcResult.status = "resolved"
    /\ ~svcResult.hit
    /\ svcCall.page = 2
    /\ svcCall.limit = 1
    /\ svcResult.value[1].pagination.totalPages = 2
    /\ Len(svcResult.value[1].results) = 1
    /\ svcResult.value[1].results[1] = RankedRows(svcCall.query)[2]

\* The key of the search in flight or finished
CallKey == CacheKey(svcCall.query, svcCall.page, svcCall.limit)

\* On a hit the cached response is returned and the index is not read (no
\* response is computed)
HitReturnsCached ==
    (svcPc = "get" /\ svcPc' # "get" /\ CallKey \in DOMAIN cache /\ ~svcLocal'.getThrew) =>
        /\ svcPc' = "done"
        /\ svcResult'.status = "resolved"
        /\ svcResult'.hit
        /\ svcResult'.value = <<JSONParse(cache[CallKey].value)>>
        /\ svcLocal'.response = <<>>

\* On a miss the response is computed from the index
MissComputes ==
    (svcPc = "get" /\ svcPc' # "get" /\ CallKey \notin DOMAIN cache) =>
        /\ svcPc' = "set"
        /\ svcLocal'.response = <<PageOfRanking(svcCall.query, svcCall.page, svcCall.limit)>>

\* ... and stored under the same key with an expiry of 300 seconds, and returned
MissStores ==
    (svcPc = "set" /\ svcPc' = "done" /\ ~svcResult'.setThrew) =>
        /\ DOMAIN cache' = DOMAIN cache \cup {CallKey}
        /\ cache'[CallKey].EX = 300
        /\ JSONParse(cache'[CallKey].value) = JSONParse(JSONStringify(svcLocal.response[1]))
        /\ svcResult'.value = svcLocal.response
        /\ \A k \in DOMAIN cache \ {CallKey} : cache'[k] = cache[k]

-----------------------------------------------------------------------------
(* Further claims about the index *)

\* C24: after any sequence of addDocument calls, totalDocs is the number of
\* documents held in the document store, that is of distinct ids added.
C24_TotalDocsCountsStored == totalDocs = Cardinality(DOMAIN documents)

\* The stored frequencies of the tokens of a query in a document, one
\* summand per position of the token sequence
RECURSIVE SumTfOverPositions(_, _)
SumTfOverPositions(tokens, d) ==
    IF tokens = <<>> THEN 0
    ELSE (IF StoredTf(Head(tokens), d) THEN MapGet(index[Head(tokens)].tf, d) ELSE 0)
         + SumTfOverPositions(Tail(tokens), d)

QueryABAB == <<"a","b"," ","a","b">>

\* C29: search does not deduplicate the query's tokens: a term occurring n
\* times in the filtered query adds n times its stored frequency to a matching
\* document's score, so search("ab ab") returns the documents of search("ab")
\* with every score doubled.
C29_RepeatedTermsCountAgain ==
    ret.op = "search" =>
        /\ \A i \in 1..Len(ret.results) :
               ret.results[i].score =
                   SumTfOverPositions(removeStopWords(tokenizer(ret.query)),
                                      ret.results[i].documentId)
        /\ ret.query = QueryABAB =>
               LET once == search(index, TermAB)
               IN  /\ Len(ret.results) = Len(once)
                   /\ \A i \in 1..Len(once) :
                          /\ ret.results[i].documentId = once[i].documentId
                          /\ ret.results[i].score = 2 * once[i].score

\* search("ab ab") found two documents
C29_Witness ==
    /\ ret.op = "search"
    /\ ret.query = QueryABAB
    /\ Len(ret.results) = 2
    /\ ret.results[1].score >= 4

-----------------------------------------------------------------------------
(* Claims about the MinHeap *)

\* The documented parent of index i > 0: Math.floor((i - 1) / 2)
ParentOf(i) == (i - 1) \div 2

\* C25: after any sequence of push calls the backing array is a binary
\* min-heap: for every index i > 0 the element at floor((i - 1) / 2) compares
\* less than or equal to the element at i, so every parent is <= both of its
\* children (indices 2i+1 and 2i+2).
C25_PushKeepsHeapProperty ==
    /\ \A i \in 1..(Len(minHeap) - 1) :
           compare(minHeap[ParentOf(i) + 1], minHeap[i + 1]) <= 0
    /\ \A i \in 0..(Len(minHeap) - 1) :
           \A child \in {2 * i + 1, 2 * i + 2} :
               child < Len(minHeap) => compare(minHeap[i + 1], minHeap[child + 1]) <= 0

\* A minimum of a non-empty array under the comparator
IsMinimumOf(element, array) ==
    /\ \E i \in 1..Len(array) : array[i] = element
    /\ \A i \in 1..Len(array) : compare(element, array[i]) <= 0

\* C26: pop() terminates for every heap: on an empty heap it returns
\* undefined; on a heap of n >= 1 elements it removes exactly one element,
\* returns a minimum under the comparator and leaves a heap of n - 1 elements
\* whose root is again a minimum.
C26_PopTerminates ==
    /\ heapPc # "bubbleDown"
    /\ heapRet.op = "pop" =>
           /\ heapRet.returns
           /\ (heapRet.before = <<>> => heapRet.value = <<>> /\ minHeap = <<>>)
           /\ (heapRet.before # <<>> =>
                   /\ Len(heapRet.value) = 1
                   /\ Len(minHeap) = Len(heapRet.before) - 1
                   /\ (minHeap # <<>> => IsMinimumOf(minHeap[1], minHeap)))

-----------------------------------------------------------------------------
(* Claims about the GET /apex/search handler *)

\* C27: the handler asks findClosestTerm for a correction only when the query
\* matched no document (pagination.total = 0), records the query in the
\* popularity history whenever it matched at least one document, and never
\* does both for one request.
C27_CorrectionOnlyWithoutMatches ==
    (routePc = "sent" /\ routeOut.status = 200) =>
        /\ (routeOut.askedCorrection => routeOut.total = 0)
        /\ (routeOut.total >= 1 => routeOut.recordCalled)
        /\ ~(routeOut.askedCorrection /\ routeOut.recordCalled)

-----------------------------------------------------------------------------
(* Claims about searches running along with addDocument *)

\* Every posting names a stored document, and every term of a stored document
\* has the document among its postings
PostingsMatchStore ==
    /\ \A t \in DOMAIN index : index[t].docIds \subseteq DOMAIN documents
    /\ \A d \in DOMAIN documents :
           \A token \in Range(DocTokens(documents[d])) :
               /\ token \in DOMAIN index
               /\ d \in index[token].docIds
               /\ MapHas(index[token].tf, d)

\* C28: however search requests interleave with addDocument calls, no search
\* sees a half-applied addDocument: the postings of the added document and its
\* entry in the document store are visible together or not at all, so every
\* documentId of a search result resolves through getDocument to a stored
\* document.
C28_SearchSeesWholeDocuments ==
    /\ [](PostingsMatchStore)
    /\ []((svcCall.op = "search" /\ svcResult.status = "resolved") =>
             \A i \in 1..Len(svcResult.value[1].results) :
                 svcResult.value[1].results[i].documentId \in DOMAIN documents)
    /\ [][ (svcCall'.op = "search" /\ svcLocal'.response # <<>>
               /\ (svcLocal # svcLocal' \/ svcCall # svcCall')) =>
           \A i \in 1..Len(svcLocal'.response[1].results) :
               LET row == svcLocal'.response[1].results[i]
               IN  /\ row.documentId \in DOMAIN documents
                   /\ row.title = documents[row.documentId].title
                   /\ row.content = documents[row.documentId].content
                   /\ \E token \in Range(QueryTokens(svcCall'.query)) :
                          /\ token \in DOMAIN index
                          /\ row.documentId \in index[token].docIds ]_vars

\* A document was added while the search awaited the cache's set: the search
\* returned the one result it had found, and the index now gives two
C28_Witness ==
    /\ svcPc = "done"
    /\ svcCall.op = "search"
    /\ svcResult.status = "resolved"
    /\ ~svcResult.hit
    /\ svcCall.limit = 2
    /\ Len(svcResult.value[1].results) = 1
    /\ Len(search(index, svcCall.query)) = 2

-----------------------------------------------------------------------------
(* Claims about initializeRedisClient *)

\* C30: however concurrent initializeRedisClient calls interleave, every call
\* that returns normally returns a client whose connect() has already
\* completed successfully, and at most one client exists while the
\* module-level reference is not null.
C30_ReturnedClientIsConnected ==
    /\ \A c \in InitCallers :
           initRet[c].status = "returned" => initRet[c].state = "ready"
    /\ client # NoClient =>
           Cardinality({i \in 1..Len(clientState) : clientState[i] # "closed"}) <= 1

====
